---------------------------- MODULE Spec2Model ----------------------------
(***************************************************************************)
(* Model of the Lofelt haptic clip players: the HapticEventProvider, the   *)
(* streaming player (facade, command channel, streaming thread), the      *)
(* waveform (Android) player, the null player and the HapticsController.   *)
(*                                                                         *)
(* Numbers.  Times are integers counted in ticks; amplitudes and           *)
(* frequencies are integers on a grid on which MAX_ENVELOPE_AMPLITUDE      *)
(* stands for 1.0.  Instants are measured relative to the current instant: *)
(* Now is 0 and the passing of time (Tick) moves start_time into the past. *)
(* Option<T> is a sequence of length at most one: None == <<>>,            *)
(* Some(x) == <<x>>.  Vec indices are 0-based as in the source.            *)
(***************************************************************************)
EXTENDS Integers, Sequences, FiniteSets, TLC

\* ------------------------------------------------------------------ bounds

\* The largest playhead position (in ticks) the clock is followed to.
MaxPlayhead == 5

\* A call is made only while fewer than MaxQueue commands wait in the channel.
MaxQueue == 1

\* ------------------------------------------------------- program constants

MIN_ENVELOPE_AMPLITUDE == 0

MAX_ENVELOPE_AMPLITUDE == 4

\* 0.0001 s, which is below the resolution of one tick.
MIN_BREAKPOINT_DISTANCE == 0

\* f32::NAN, the "no emphasis" value of an AmplitudeEvent.
NAN == -1000

None == <<>>

Some(x) == <<x>>

Max(a, b) == IF a >= b THEN a ELSE b

Min(a, b) == IF a <= b THEN a ELSE b

\* -------------------------------------------------------------- data model

NoEmphasis == None

AmplitudeBreakpoint(t, a, e) == [time |-> t, amplitude |-> a, emphasis |-> e]

FrequencyBreakpoint(t, f) == [time |-> t, frequency |-> f]

DataModel(v, amp, freq) == [version |-> v, amplitude |-> amp, frequency |-> freq]

Version(major, minor, patch) == [major |-> major, minor |-> minor, patch |-> patch]

CURRENT == Version(1, 0, 0)

\* utils::interpolate
interpolate(time_a, time_b, value_a, value_b, time) ==
    LET time_diff == time_b - time_a
        value_diff == value_b - value_a
    IN  IF time_diff = 0 THEN value_b
        ELSE value_a + (value_diff * (time - time_a)) \div time_diff

\* Vec::get with a 0-based index
Get(vec, index) == IF index >= 0 /\ index < Len(vec) THEN Some(vec[index + 1]) ELSE None

\* Vec::last
Last(vec) == IF Len(vec) > 0 THEN Some(vec[Len(vec)]) ELSE None

\* ----------------------------------------------------- haptic_event_provider

\* enum EnvelopePosition
BeforeInitial(events, index_of_initial_breakpoint) ==
    [tag |-> "BeforeInitial", events |-> events,
     index_of_initial_breakpoint |-> index_of_initial_breakpoint]

InClip(index) == [tag |-> "InClip", index |-> index]

AfterLast == [tag |-> "AfterLast"]

PositionNone == [tag |-> "None"]

\* struct AmplitudeEvent; its emphasis fields are NAN when there is no emphasis
AmplitudeEvent(time, duration, amplitude, emphasis) ==
    [kind |-> "Amplitude", time |-> time, duration |-> duration,
     amplitude |-> amplitude, emphasis |-> emphasis]

\* struct FrequencyEvent
FrequencyEvent(time, duration, frequency) ==
    [kind |-> "Frequency", time |-> time, duration |-> duration,
     frequency |-> frequency]

NanEmphasis == [amplitude |-> NAN, frequency |-> NAN]

\* from_amplitude_breakpoints when the duration of the event is the time of the next
\* breakpoint, not the time from the current one to it
from_amplitude_breakpoints_until(current, next) ==
    AmplitudeEvent(current.time, next.time, next.amplitude, NanEmphasis)

\* Event::from_amplitude_breakpoints
from_amplitude_breakpoints(current, next) ==
    AmplitudeEvent(current.time, next.time - current.time, next.amplitude,
                   IF current.emphasis = None THEN NanEmphasis
                   ELSE [amplitude |-> current.emphasis[1].amplitude,
                         frequency |-> current.emphasis[1].frequency])

\* Event::from_frequency_breakpoints
from_frequency_breakpoints(current, next) ==
    FrequencyEvent(current.time, next.time - current.time, next.frequency)

\* Event::immediate_stop_event
immediate_stop_event == AmplitudeEvent(0, 0, 0, NanEmphasis)

\* AmplitudeEvent::apply_amplitude_multiplication and Event::apply_amplitude_multiplication
apply_amplitude_multiplication(event, multiplication_factor) ==
    IF event.kind # "Amplitude" THEN event
    ELSE LET a1 == Max(event.amplitude * multiplication_factor, 0)
             a2 == Min(a1 * multiplication_factor, MAX_ENVELOPE_AMPLITUDE)
             e0 == event.emphasis.amplitude
             e1 == Max(e0 * multiplication_factor, 0)
             e2 == Min(e1 * multiplication_factor, MAX_ENVELOPE_AMPLITUDE)
         IN  [event EXCEPT !.amplitude = a2,
                           !.emphasis.amplitude = IF e0 = NAN THEN NAN ELSE e2]

\* AmplitudeEvent::apply_frequency_shift, FrequencyEvent::apply_frequency_shift
apply_frequency_shift(event, shift) ==
    IF event.kind = "Amplitude"
    THEN IF event.emphasis.frequency = NAN THEN event
         ELSE [event EXCEPT !.emphasis.frequency =
                   Max(Min(event.emphasis.frequency + shift, MAX_ENVELOPE_AMPLITUDE), 0)]
    ELSE [event EXCEPT !.frequency =
              Max(Min(event.frequency + shift, MAX_ENVELOPE_AMPLITUDE), 0)]

\* The result of envelope.binary_search_by(|bp| bp.time.partial_cmp(&seek_time)),
\* Ok(index) and Err(index) alike: the index of the first breakpoint at or after
\* seek_time (the envelopes of the model have pairwise different times).
binary_search_by_time(envelope, seek_time) ==
    Cardinality({i \in 1..Len(envelope) : envelope[i].time < seek_time})

\* HapticEventProvider::amplitude_position_for_seek
amplitude_position_for_seek(self, seek_time) ==
    LET envelope == self.clip.amplitude
        index_of_initial_breakpoint == binary_search_by_time(envelope, seek_time)
        initial_breakpoint == Get(envelope, index_of_initial_breakpoint)
        previous_breakpoint == IF index_of_initial_breakpoint > 0
                               THEN Get(envelope, index_of_initial_breakpoint - 1)
                               ELSE None
        interpolated_breakpoint ==
            AmplitudeBreakpoint(seek_time,
                interpolate(previous_breakpoint[1].time, initial_breakpoint[1].time,
                            previous_breakpoint[1].amplitude,
                            initial_breakpoint[1].amplitude, seek_time),
                None)
        ramp1 == AmplitudeEvent(seek_time, 0, interpolated_breakpoint.amplitude, NanEmphasis)
        distance == initial_breakpoint[1].time - interpolated_breakpoint.time
        events ==
            IF previous_breakpoint # None
            THEN IF Max(distance, -distance) > MIN_BREAKPOINT_DISTANCE
                 THEN <<ramp1,
                        from_amplitude_breakpoints(interpolated_breakpoint,
                                                   initial_breakpoint[1])>>
                 ELSE <<ramp1>>
            ELSE <<from_amplitude_breakpoints(AmplitudeBreakpoint(seek_time, 0, None),
                                              initial_breakpoint[1])>>
    IN  IF initial_breakpoint # None
        THEN BeforeInitial(events, index_of_initial_breakpoint)
        ELSE IF self.amplitude_position # PositionNone THEN AfterLast ELSE PositionNone

\* HapticEventProvider::frequency_position_for_seek, on a present envelope
RECURSIVE frequency_position_in_envelope(_, _)
frequency_position_in_envelope(envelope, seek_time) ==
    LET index_of_initial_breakpoint == binary_search_by_time(envelope, seek_time)
        initial_breakpoint == Get(envelope, index_of_initial_breakpoint)
        previous_breakpoint == IF index_of_initial_breakpoint > 0
                               THEN Get(envelope, index_of_initial_breakpoint - 1)
                               ELSE None
        interpolated_breakpoint ==
            FrequencyBreakpoint(seek_time,
                interpolate(previous_breakpoint[1].time, initial_breakpoint[1].time,
                            previous_breakpoint[1].frequency,
                            initial_breakpoint[1].frequency, seek_time))
        ramp1 == FrequencyEvent(seek_time, 0, interpolated_breakpoint.frequency)
        distance == initial_breakpoint[1].time - interpolated_breakpoint.time
        events ==
            IF previous_breakpoint # None
            THEN IF Max(distance, -distance) > MIN_BREAKPOINT_DISTANCE
                 THEN <<ramp1,
                        from_frequency_breakpoints(interpolated_breakpoint,
                                                   initial_breakpoint[1])>>
                 ELSE <<ramp1>>
            ELSE <<from_frequency_breakpoints(FrequencyBreakpoint(seek_time, 0),
                                              initial_breakpoint[1])>>
    IN  IF initial_breakpoint # None
        THEN BeforeInitial(events, index_of_initial_breakpoint)
        ELSE IF Last(envelope) # None
             THEN frequency_position_in_envelope(envelope, Last(envelope)[1].time)
             ELSE PositionNone

\* HapticEventProvider::frequency_position_for_seek
frequency_position_for_seek(self, seek_time, amplitude_position) ==
    IF amplitude_position.tag \in {"AfterLast", "None"} THEN PositionNone
    ELSE IF self.clip.frequency = None THEN PositionNone
    ELSE frequency_position_in_envelope(self.clip.frequency[1], seek_time)

\* HapticEventProvider::seek, once amplitude_position_for_seek has returned
\* amplitude_position
seek_frequency(self, seek_time, amplitude_position) ==
    [self EXCEPT !.amplitude_position = amplitude_position,
                 !.frequency_position =
                     frequency_position_for_seek(self, seek_time, amplitude_position)]

\* seek when it goes to the beginning of the clip whatever the time asked for
ProviderSeekToStart(self, seek_time) ==
    seek_frequency(self, 0, amplitude_position_for_seek(self, 0))

\* HapticEventProvider::seek
ProviderSeek(self, seek_time) ==
    seek_frequency(self, Max(seek_time, 0),
                   amplitude_position_for_seek(self, Max(seek_time, 0)))

\* A HapticEventProvider::new that leaves out seek(0.0), so that a new provider is at
\* EnvelopePosition::None until it is sought: the behaviour C35 excludes
HapticEventProviderAtNone(clip) ==
    [clip |-> clip,
     amplitude_position |-> PositionNone,
     frequency_position |-> PositionNone,
     amplitude_multiplication |-> 1,
     frequency_shift |-> 0]

\* HapticEventProvider::new
HapticEventProvider(clip) ==
    ProviderSeek([clip |-> clip,
                  amplitude_position |-> PositionNone,
                  frequency_position |-> PositionNone,
                  amplitude_multiplication |-> 1,
                  frequency_shift |-> 0], 0)

\* A set_amplitude_multiplication that keeps the factor the provider has: the behaviour
\* C36 excludes
ProviderKeepAmplitudeMultiplication(self, multiplication_factor) == self

\* HapticEventProvider::set_amplitude_multiplication
ProviderSetAmplitudeMultiplication(self, multiplication_factor) ==
    [self EXCEPT !.amplitude_multiplication = multiplication_factor]

\* HapticEventProvider::set_frequency_shift
ProviderSetFrequencyShift(self, shift) == [self EXCEPT !.frequency_shift = shift]

\* HapticEventProvider::stop
ProviderStop(self) ==
    [self EXCEPT !.amplitude_position = AfterLast, !.frequency_position = PositionNone]

\* A pair (Option<Event>, EnvelopePosition) as peek_amplitude_event returns it
Peeked(event, position) == [event |-> event, position |-> position]

\* HapticEventProvider::peek_amplitude_event, EnvelopePosition::AfterLast
peek_amplitude_after_last(envelope) ==
    IF Last(envelope) # None
    THEN Peeked(Some(from_amplitude_breakpoints(
                         Last(envelope)[1],
                         AmplitudeBreakpoint(Last(envelope)[1].time, 0, None))),
                PositionNone)
    ELSE Peeked(None, PositionNone)

\* HapticEventProvider::peek_amplitude_event, EnvelopePosition::InClip
peek_amplitude_in_clip(envelope, index) ==
    IF Get(envelope, index) # None /\ Get(envelope, index + 1) # None
    THEN Peeked(Some(from_amplitude_breakpoints(Get(envelope, index)[1],
                                                Get(envelope, index + 1)[1])),
                InClip(index + 1))
    ELSE peek_amplitude_after_last(envelope)

\* HapticEventProvider::peek_amplitude_event
peek_amplitude_event(self, position) ==
    LET envelope == self.clip.amplitude
    IN  CASE position.tag = "BeforeInitial" ->
                IF Len(position.events) > 0
                THEN Peeked(Some(Head(position.events)),
                            BeforeInitial(Tail(position.events),
                                          position.index_of_initial_breakpoint))
                ELSE peek_amplitude_in_clip(envelope, position.index_of_initial_breakpoint)
          [] position.tag = "InClip" -> peek_amplitude_in_clip(envelope, position.index)
          [] position.tag = "AfterLast" -> peek_amplitude_after_last(envelope)
          [] position.tag = "None" -> Peeked(None, PositionNone)

\* HapticEventProvider::peek_frequency_event, EnvelopePosition::InClip
peek_frequency_in_clip(envelope, index) ==
    IF envelope # None /\ Get(envelope[1], index) # None
                       /\ Get(envelope[1], index + 1) # None
    THEN Peeked(Some(from_frequency_breakpoints(Get(envelope[1], index)[1],
                                                Get(envelope[1], index + 1)[1])),
                InClip(index + 1))
    ELSE Peeked(None, PositionNone)

\* HapticEventProvider::peek_frequency_event (AfterLast is unreachable!() there)
peek_frequency_event(self, position) ==
    LET envelope == self.clip.frequency
    IN  CASE position.tag = "BeforeInitial" ->
                IF Len(position.events) > 0
                THEN Peeked(Some(Head(position.events)),
                            BeforeInitial(Tail(position.events),
                                          position.index_of_initial_breakpoint))
                ELSE peek_frequency_in_clip(envelope, position.index_of_initial_breakpoint)
          [] position.tag = "InClip" -> peek_frequency_in_clip(envelope, position.index)
          [] position.tag = "None" -> Peeked(None, PositionNone)

\* struct PeekedEvent
PeekedEvent(event, new_amplitude_position, new_frequency_position) ==
    [event |-> event, new_amplitude_position |-> new_amplitude_position,
     new_frequency_position |-> new_frequency_position]

\* peek_event when a frequency event is returned before any amplitude event, whatever
\* their times
choose_frequency_first(self, amplitude_position, frequency_position, peeked_amplitude, peeked_frequency) ==
    IF peeked_frequency.event # None
    THEN PeekedEvent(peeked_frequency.event, amplitude_position, peeked_frequency.position)
    ELSE IF peeked_amplitude.event # None
    THEN PeekedEvent(peeked_amplitude.event, peeked_amplitude.position, frequency_position)
    ELSE PeekedEvent(None, PositionNone, PositionNone)

\* HapticEventProvider::peek_event, once peek_amplitude_event and peek_frequency_event
\* have returned peeked_amplitude and peeked_frequency
choose_peeked_event(self, amplitude_position, frequency_position, peeked_amplitude, peeked_frequency) ==
    LET amplitude_event_to_return ==
            PeekedEvent(
                Some(apply_frequency_shift(
                         apply_amplitude_multiplication(peeked_amplitude.event[1],
                                                        self.amplitude_multiplication),
                         self.frequency_shift)),
                peeked_amplitude.position, frequency_position)
        frequency_event_to_return ==
            PeekedEvent(
                Some(apply_frequency_shift(peeked_frequency.event[1], self.frequency_shift)),
                amplitude_position, peeked_frequency.position)
    IN  CASE peeked_amplitude.event = None /\ peeked_frequency.event = None ->
                PeekedEvent(None, PositionNone, PositionNone)
          [] peeked_amplitude.event # None /\ peeked_frequency.event = None ->
                amplitude_event_to_return
          [] peeked_amplitude.event = None /\ peeked_frequency.event # None ->
                frequency_event_to_return
          [] peeked_amplitude.event # None /\ peeked_frequency.event # None ->
                IF peeked_amplitude.event[1].time <= peeked_frequency.event[1].time
                THEN amplitude_event_to_return
                ELSE frequency_event_to_return

\* A peek_event that peeks the frequency envelope wherever the amplitude position is:
\* the behaviour C34 excludes
peek_event_of_both(self, amplitude_position, frequency_position) ==
    choose_peeked_event(self, amplitude_position, frequency_position,
        peek_amplitude_event(self, amplitude_position),
        peek_frequency_event(self, frequency_position))

\* HapticEventProvider::peek_event
peek_event(self, amplitude_position, frequency_position) ==
    choose_peeked_event(self, amplitude_position, frequency_position,
        peek_amplitude_event(self, amplitude_position),
        IF amplitude_position.tag \in {"None", "AfterLast"}
        THEN Peeked(None, PositionNone)
        ELSE peek_frequency_event(self, frequency_position))

\* Option<Event>::map(|event| event.time())
event_time(event) == IF event = None THEN None ELSE Some(event[1].time)

\* HapticEventProvider::peek_event_start_time
peek_event_start_time(self) ==
    event_time(peek_event(self, self.amplitude_position, self.frequency_position).event)

\* get_next_event when it returns the event after the one peek_event finds
get_event_after_next(self) ==
    LET peeked_event == peek_event(self, self.amplitude_position, self.frequency_position)
    IN  peek_event(self, peeked_event.new_amplitude_position,
                   peeked_event.new_frequency_position).event

\* HapticEventProvider::get_next_event: the event returned
get_next_event(self) ==
    peek_event(self, self.amplitude_position, self.frequency_position).event

\* The provider at the positions of peeked_event
advance_to(self, peeked_event) ==
    [self EXCEPT !.amplitude_position = peeked_event.new_amplitude_position,
                 !.frequency_position = peeked_event.new_frequency_position]

\* HapticEventProvider::get_next_event: the provider after the call
ProviderAdvance(self) ==
    advance_to(self, peek_event(self, self.amplitude_position, self.frequency_position))

\* ------------------------------------------------------------------- state

VARIABLES
    backend,            \* the player the controller owns: "streaming", "waveform", "null"
    debug_assertions,   \* whether debug_assert! is compiled in (the build profile)
    clip_duration,      \* HapticsController::clip_duration
    clip_loaded,        \* streaming::Player::clip_loaded, android::Player::clip_loaded
    haptic_clip,        \* null::Player::haptic_clip
    dropped,            \* the Player has been dropped
    queue,              \* the commands in the crossbeam channel, oldest first
    thread,             \* the worker thread: "running", "exited", "panicked"
    event_provider,     \* EventSender::event_provider
    start_time,         \* EventSender::start_time, relative to Now
    play_delay,         \* EventSender::play_delay
    looping_enabled,    \* EventSender::looping_enabled
    original_clip,      \* android::command_loop, original_clip
    original_waveform,  \* android::command_loop, original_waveform
    amplitude_multiplication_factor,    \* android::command_loop
    is_looping_enabled, \* android::command_loop
    emitted,            \* what the last step passed to the host callbacks, in order
    last,               \* the last step taken: a call and the value it returned, or a
                        \* step of the worker and whether a clip was playing before it
    processed           \* the last command the worker received, and the playback state then

vars == <<backend, debug_assertions, clip_duration, clip_loaded, haptic_clip, dropped,
          queue, thread, event_provider, start_time, play_delay, looping_enabled,
          original_clip, original_waveform, amplitude_multiplication_factor,
          is_looping_enabled, emitted, last, processed>>

\* Instant::now().  Instants are relative to the current instant.
Now == 0

\* const DEFAULT_TIME_TO_SLEEP, in seconds
DEFAULT_TIME_TO_SLEEP == 10000

\* Result<(), Error>
Ok == "Ok"

Err(message) == message

\* enum PlayerCommand
Load(data) == [cmd |-> "Load", data |-> data]

Unload == [cmd |-> "Unload"]

Play == [cmd |-> "Play"]

Stop == [cmd |-> "Stop"]

Seek(seek_time) == [cmd |-> "Seek", seek_time |-> seek_time]

SetAmplitudeMultiplication(multiplication_factor) ==
    [cmd |-> "SetAmplitudeMultiplication", multiplication_factor |-> multiplication_factor]

SetFrequencyShift(shift) == [cmd |-> "SetFrequencyShift", shift |-> shift]

Loop(enabled) == [cmd |-> "Loop", enabled |-> enabled]

Quit == [cmd |-> "Quit"]

\* ---------------------------------------------------- streaming: EventSender

\* struct EventSender, with the events its callbacks received during the current
\* step and whether a debug_assert! failed during it
EventSender ==
    [event_provider |-> event_provider, start_time |-> start_time,
     play_delay |-> play_delay, looping_enabled |-> looping_enabled,
     callbacks |-> <<>>, panicked |-> FALSE]

\* EventSender::rewind
rewind(self) ==
    [self EXCEPT !.event_provider =
                     IF @ = None THEN None ELSE Some(ProviderSeek(@[1], 0)),
                 !.start_time = None]

\* EventSender::send_event
\* send_event when one event reaches the callbacks twice
send_event_twice(self, event) == [self EXCEPT !.callbacks = Append(Append(@, event), event)]

send_event(self, event) == [self EXCEPT !.callbacks = Append(@, event)]

\* A send_next_event that at the end of a looping clip resets start_time and leaves
\* the provider where it is, at its end: the behaviour C15 excludes
finish_without_seeking(self, next_event_time) ==
    IF next_event_time # None THEN self
    ELSE IF self.looping_enabled THEN [self EXCEPT !.start_time = Some(Now)]
    ELSE rewind(self)

\* A send_next_event that rewinds at the end of the clip whether looping is enabled
\* or not: the behaviour C11 excludes
finish_by_rewinding(self, next_event_time) ==
    IF next_event_time # None THEN self ELSE rewind(self)

\* EventSender::send_next_event, once the event has been passed to its callback:
\* next_event_time is what peek_event_start_time returns then
finish_or_continue(self, next_event_time) ==
    IF next_event_time # None THEN self
    ELSE IF self.looping_enabled
         THEN [self EXCEPT !.event_provider = Some(ProviderSeek(@[1], 0)),
                           !.start_time = Some(Now)]
         ELSE rewind(self)

\* EventSender::send_next_event, once get_next_event has returned event and left the
\* provider as advanced
send_got_event(self, event, advanced) ==
    IF event = None THEN [self EXCEPT !.event_provider = Some(advanced)]
    ELSE IF debug_assertions /\ self.start_time = None
         THEN [self EXCEPT !.event_provider = Some(advanced), !.panicked = TRUE]
         ELSE finish_or_continue(
                  send_event([self EXCEPT !.event_provider = Some(advanced)], event[1]),
                  peek_event_start_time(advanced))

\* EventSender::send_next_event
send_next_event(self) ==
    IF self.event_provider = None THEN self
    ELSE send_got_event(self, get_next_event(self.event_provider[1]),
                        ProviderAdvance(self.event_provider[1]))

\* The rewind that ends EventSender::stop, which a panicking thread does not reach
rewind_after_stop(sent) == IF sent.panicked THEN sent ELSE rewind(sent)

\* An EventSender::stop without the check of start_time, which stops a clip that is
\* not playing: the behaviour C3 excludes
EventSenderStopUnchecked(self) ==
    IF self.event_provider # None
    THEN rewind_after_stop(
             send_next_event([self EXCEPT !.event_provider = Some(ProviderStop(@[1]))]))
    ELSE self

\* EventSender::stop
EventSenderStop(self) ==
    IF self.event_provider # None /\ self.start_time # None
    THEN rewind_after_stop(
             send_next_event([self EXCEPT !.event_provider = Some(ProviderStop(@[1]))]))
    ELSE self

\* The play_delay a seek to seek_time records
DelayOfSeek(seek_time) == IF seek_time < 0 THEN Some(-seek_time) ELSE None

\* EventSender::seek, once event_provider.seek has left the sender as sought and
\* peek_event_start_time has returned next_event_time
seek_sought(self, sought, seek_time, next_event_time) ==
    IF next_event_time # None
    THEN IF self.start_time # None
         THEN IF seek_time >= 0
              THEN [sought EXCEPT !.start_time = Some(Now - seek_time)]
              ELSE [(IF Now > self.start_time[1]
                     THEN send_event(sought, immediate_stop_event)
                     ELSE sought) EXCEPT !.start_time = Some(Now + (-seek_time))]
         ELSE [sought EXCEPT !.play_delay = DelayOfSeek(seek_time)]
    ELSE [rewind(sought) EXCEPT !.play_delay = DelayOfSeek(seek_time)]

\* EventSender::seek, once event_provider.seek has left the provider as provider
seek_provider(self, provider, seek_time) ==
    seek_sought(self, [self EXCEPT !.event_provider = Some(provider)], seek_time,
                peek_event_start_time(provider))

\* EventSender::seek
EventSenderSeek(self, seek_time) ==
    IF self.event_provider = None THEN self
    ELSE seek_provider(self, ProviderSeek(self.event_provider[1], seek_time), seek_time)

\* EventSender::playhead_time
playhead_time(self) ==
    IF self.start_time = None THEN None ELSE Some(Now - self.start_time[1])

\* EventSender::time_to_next_event, for the next_event_time that
\* peek_event_start_time returns
time_to(self, next_event_time) ==
    IF playhead_time(self) # None /\ next_event_time # None
    THEN Max(next_event_time[1] - playhead_time(self)[1], 0)
    ELSE DEFAULT_TIME_TO_SLEEP

\* EventSender::time_to_next_event
time_to_next_event(self) ==
    IF self.event_provider = None THEN DEFAULT_TIME_TO_SLEEP
    ELSE time_to(self, peek_event_start_time(self.event_provider[1]))

\* streaming::command_loop, PlayerCommand::Play, for the next_event_time that
\* peek_event_start_time returns
start_at(self, next_event_time) ==
    IF next_event_time # None
    THEN [self EXCEPT !.start_time =
                          Some(Now - next_event_time[1]
                               + (IF self.play_delay = None THEN 0
                                  ELSE self.play_delay[1])),
                      !.play_delay = None]
    ELSE [self EXCEPT !.start_time = Some(Now)]

\* A PlayerCommand::Play without the check of start_time, which restarts a clip
\* that is playing: the behaviour C1 excludes
CommandPlayRestarting(self) ==
    IF self.event_provider = None THEN self
    ELSE start_at(self, peek_event_start_time(self.event_provider[1]))

\* streaming::command_loop, PlayerCommand::Play
CommandPlay(self) ==
    IF self.event_provider = None THEN self
    ELSE IF self.start_time # None THEN self
    ELSE start_at(self, peek_event_start_time(self.event_provider[1]))

\* The seek to the playhead that follows a change of the modulation while playing
seek_to_playhead(self) ==
    IF playhead_time(self) # None
    THEN EventSenderSeek(self, playhead_time(self)[1])
    ELSE self

\* streaming::command_loop, PlayerCommand::SetAmplitudeMultiplication
CommandSetAmplitudeMultiplication(self, multiplication_factor) ==
    IF self.event_provider = None THEN self
    ELSE seek_to_playhead(
             [self EXCEPT !.event_provider =
                  Some(ProviderSetAmplitudeMultiplication(@[1], multiplication_factor))])

\* streaming::command_loop, PlayerCommand::SetFrequencyShift
CommandSetFrequencyShift(self, shift) ==
    IF self.event_provider = None THEN self
    ELSE seek_to_playhead(
             [self EXCEPT !.event_provider = Some(ProviderSetFrequencyShift(@[1], shift))])

\* Replacing the provider, which a panicking thread does not reach
replace_provider(stopped, provider) ==
    IF stopped.panicked THEN stopped ELSE [stopped EXCEPT !.event_provider = provider]

\* streaming::command_loop, PlayerCommand::Load
CommandLoad(self, data) ==
    replace_provider(EventSenderStop(self), Some(HapticEventProvider(data)))

\* streaming::command_loop, PlayerCommand::Unload
CommandUnload(self) == replace_provider(EventSenderStop(self), None)

\* A PlayerCommand::Loop that can enable looping and not disable it: the behaviour
\* C16 excludes
CommandLoopEnablingOnly(self, enabled) ==
    IF self.event_provider = None THEN self
    ELSE [self EXCEPT !.looping_enabled = @ \/ enabled]

\* streaming::command_loop, PlayerCommand::Loop and EventSender::set_looping_enabled
CommandLoop(self, enabled) ==
    IF self.event_provider = None THEN self
    ELSE [self EXCEPT !.looping_enabled = enabled]

\* streaming::command_loop: the match on a received command other than Quit
Dispatch(self, command) ==
    CASE command.cmd = "Load" -> CommandLoad(self, command.data)
      [] command.cmd = "Unload" -> CommandUnload(self)
      [] command.cmd = "Play" -> CommandPlay(self)
      [] command.cmd = "Stop" -> EventSenderStop(self)
      [] command.cmd = "Seek" -> EventSenderSeek(self, command.seek_time)
      [] command.cmd = "SetAmplitudeMultiplication" ->
             CommandSetAmplitudeMultiplication(self, command.multiplication_factor)
      [] command.cmd = "SetFrequencyShift" ->
             CommandSetFrequencyShift(self, command.shift)
      [] command.cmd = "Loop" -> CommandLoop(self, command.enabled)

\* ------------------------------------------------------- datamodel: parsing

\* v1::DataModel::validate
validate(data) ==
    LET amplitude_ok(i) ==
            /\ data.amplitude[i].amplitude >= MIN_ENVELOPE_AMPLITUDE
            /\ data.amplitude[i].amplitude <= MAX_ENVELOPE_AMPLITUDE
            /\ (IF i = 1 THEN 0 ELSE data.amplitude[i - 1].time) <= data.amplitude[i].time
            /\ \/ data.amplitude[i].emphasis = None
               \/ /\ data.amplitude[i].emphasis[1].amplitude <= MAX_ENVELOPE_AMPLITUDE
                  /\ data.amplitude[i].emphasis[1].amplitude >= MIN_ENVELOPE_AMPLITUDE
                  /\ data.amplitude[i].emphasis[1].frequency <= MAX_ENVELOPE_AMPLITUDE
                  /\ data.amplitude[i].emphasis[1].frequency >= MIN_ENVELOPE_AMPLITUDE
                  /\ data.amplitude[i].emphasis[1].amplitude >= data.amplitude[i].amplitude
        frequency_ok(envelope, i) ==
            /\ envelope[i].frequency >= MIN_ENVELOPE_AMPLITUDE
            /\ envelope[i].frequency <= MAX_ENVELOPE_AMPLITUDE
            /\ (IF i = 1 THEN 0 ELSE envelope[i - 1].time) <= envelope[i].time
    IN  /\ data.amplitude # <<>>
        /\ \A i \in 1..Len(data.amplitude) : amplitude_ok(i)
        /\ \/ data.frequency = None
           \/ \A i \in 1..Len(data.frequency[1]) : frequency_ok(data.frequency[1], i)

\* A file in the layout of version 0.2.0: `metadata.duration`, `voices.envelopes` and
\* `voices.transients`, whose breakpoints have a time and an amplitude
DataModelV0(v, duration, envelopes, transients) ==
    [version |-> v, duration |-> duration, envelopes |-> envelopes,
     transients |-> transients]

\* v0::DataModel::CURRENT
CURRENT_V0 == Version(0, 2, 0)

\* serde_json::from_str::<v0::DataModel> succeeds: the file has the `voices` of the
\* version 0 layout
deserializes_as_v0(data) == "envelopes" \in DOMAIN data

\* serde_json::from_str::<v1::DataModel> succeeds: the file has the `signals` of the
\* version 1 layout
deserializes_as_v1(data) == "amplitude" \in DOMAIN data

\* v0::DataModel::validate
validate_v0(data) ==
    LET envelope_ok(envelope) ==
            /\ \A i \in 1..Len(envelope) :
                   /\ envelope[i].amplitude <= MAX_ENVELOPE_AMPLITUDE
                   /\ envelope[i].amplitude >= MIN_ENVELOPE_AMPLITUDE
                   /\ (IF i = 1 THEN 0 ELSE envelope[i - 1].time) <= envelope[i].time
            /\ (IF envelope = <<>> THEN 0 ELSE envelope[Len(envelope)].time)
                   <= data.duration
        transients == data.transients
        pair_ok(i) ==
            /\ transients[1][i].time = transients[2][i].time
            /\ transients[1][i].amplitude <= MAX_ENVELOPE_AMPLITUDE
            /\ transients[2][i].amplitude <= MAX_ENVELOPE_AMPLITUDE
            /\ transients[1][i].amplitude >= MIN_ENVELOPE_AMPLITUDE
            /\ transients[2][i].amplitude >= MIN_ENVELOPE_AMPLITUDE
    IN  /\ data.envelopes # <<>>
        /\ data.envelopes[1] # <<>>
        /\ \A e \in 1..Len(data.envelopes) : envelope_ok(data.envelopes[e])
        /\ \/ transients = <<>>
           \/ /\ Len(transients) = 2
              /\ Len(transients[1]) = Len(transients[2])
              /\ \A i \in 1..Len(transients[1]) : pair_ok(i)

\* datamodel::from_json; Some(data) is Ok with the data model of the version the file
\* was dispatched to, None is Err
from_json(data) ==
    IF data.version.major = 1
    THEN IF deserializes_as_v1(data) /\ validate(data) THEN Some(data) ELSE None
    ELSE IF data.version = CURRENT_V0
    THEN IF deserializes_as_v0(data) /\ validate_v0(data) THEN Some(data) ELSE None
    ELSE None

RECURSIVE add_v0_transients_to_v1_breakpoints(_, _, _)
\* v1::add_v0_transients_to_v1_breakpoints from the breakpoint at index on: a transient
\* at the time of a breakpoint becomes its emphasis and is removed from the transients
add_v0_transients_to_v1_breakpoints(v0_transients, v1_amplitude_breakpoints, index) ==
    LET breakpoint == v1_amplitude_breakpoints[index]
        found == {i \in 1..Len(v0_transients[1]) :
                      v0_transients[1][i].time = breakpoint.time}
        v0_transient_index == CHOOSE i \in found : TRUE
        without(transients) ==
            SubSeq(transients, 1, v0_transient_index - 1)
                \o SubSeq(transients, v0_transient_index + 1, Len(transients))
    IN  IF Len(v0_transients) # 2 THEN v1_amplitude_breakpoints
        ELSE IF Len(v0_transients[1]) # Len(v0_transients[2]) THEN v1_amplitude_breakpoints
        ELSE IF index > Len(v1_amplitude_breakpoints) THEN v1_amplitude_breakpoints
        ELSE IF found = {}
        THEN add_v0_transients_to_v1_breakpoints(v0_transients,
                                                 v1_amplitude_breakpoints, index + 1)
        ELSE add_v0_transients_to_v1_breakpoints(
                 <<without(v0_transients[1]), without(v0_transients[2])>>,
                 [v1_amplitude_breakpoints EXCEPT ![index].emphasis =
                      Some([amplitude |-> v0_transients[1][v0_transient_index].amplitude,
                            frequency |-> v0_transients[2][v0_transient_index].amplitude])],
                 index + 1)

\* impl From<v0::DataModel> for v1::DataModel
from_v0(v0) ==
    LET mapped == [i \in 1..Len(v0.envelopes[1]) |->
                      AmplitudeBreakpoint(v0.envelopes[1][i].time,
                                          v0.envelopes[1][i].amplitude, None)]
        amplitude_envelopes ==
            IF Len(mapped) = 0
            THEN <<AmplitudeBreakpoint(v0.duration, 0, None)>>
            ELSE IF v0.duration > mapped[Len(mapped)].time
            THEN Append(mapped, AmplitudeBreakpoint(v0.duration,
                                                    mapped[Len(mapped)].amplitude, None))
            ELSE mapped
        frequency_envelopes ==
            [i \in 1..Len(v0.envelopes[2]) |->
                 FrequencyBreakpoint(v0.envelopes[2][i].time, v0.envelopes[2][i].amplitude)]
    IN  DataModel(CURRENT,
                  add_v0_transients_to_v1_breakpoints(v0.transients, amplitude_envelopes, 1),
                  IF Len(v0.envelopes) = 2 /\ Len(v0.envelopes[2]) > 0
                  THEN Some(frequency_envelopes)
                  ELSE None)

\* datamodel::upgrade_to_latest
upgrade_to_latest(data) ==
    IF deserializes_as_v0(data) THEN from_v0(data)
    ELSE IF data.version.minor < CURRENT.minor
            \/ (data.version.minor = CURRENT.minor /\ data.version.patch < CURRENT.patch)
    THEN [data EXCEPT !.version = CURRENT]
    ELSE data

\* datamodel::latest_from_json
latest_from_json(data) ==
    IF from_json(data) = None THEN None ELSE Some(upgrade_to_latest(from_json(data)[1]))

\* The number of breakpoints of an envelope sorted by time that lie before time:
\* what position(|breakpoint| breakpoint.time >= time) returns when it finds one
position_at_or_after(envelope, time) ==
    Cardinality({i \in 1..Len(envelope) : \A j \in 1..i : envelope[j].time < time})

\* The breakpoints at or after time, shifted back by time
retain_and_shift(envelope, time) ==
    LET retained == SelectSeq(envelope, LAMBDA b : b.time >= time)
    IN  [i \in 1..Len(retained) |-> [retained[i] EXCEPT !.time = @ - time]]

\* v1::DataModel::truncate_before, the amplitude envelope, of which the first
\* breakpoint at or after time has the 0-based index index_of_first_breakpoint_in_range
truncate_amplitude(amplitudes, time, index_of_first_breakpoint_in_range) ==
    LET breakpoint_before == amplitudes[index_of_first_breakpoint_in_range]
        breakpoint_after == amplitudes[index_of_first_breakpoint_in_range + 1]
    IN  IF index_of_first_breakpoint_in_range = 0 THEN amplitudes
        ELSE IF breakpoint_after.time - breakpoint_before.time > 0
             THEN <<AmplitudeBreakpoint(
                        0,
                        interpolate(breakpoint_before.time, breakpoint_after.time,
                                    breakpoint_before.amplitude,
                                    breakpoint_after.amplitude, time),
                        None)>> \o retain_and_shift(amplitudes, time)
             ELSE retain_and_shift(amplitudes, time)

\* v1::DataModel::truncate_before, the frequency envelope
truncate_frequency(frequencies, time, index_of_first_breakpoint_in_range) ==
    LET breakpoint_before == frequencies[index_of_first_breakpoint_in_range]
        breakpoint_after == frequencies[index_of_first_breakpoint_in_range + 1]
    IN  IF index_of_first_breakpoint_in_range = 0 THEN frequencies
        ELSE IF breakpoint_after.time - breakpoint_before.time > 0
             THEN <<FrequencyBreakpoint(
                        0,
                        interpolate(breakpoint_before.time, breakpoint_after.time,
                                    breakpoint_before.frequency,
                                    breakpoint_after.frequency, time))>>
                  \o retain_and_shift(frequencies, time)
             ELSE retain_and_shift(frequencies, time)

\* v1::DataModel::truncate_before; Some(clip) is Ok with the clip truncated, None is Err
truncate_before(clip, time) ==
    IF \A i \in 1..Len(clip.amplitude) : clip.amplitude[i].time < time THEN None
    ELSE Some([clip EXCEPT
            !.amplitude = truncate_amplitude(@, time, position_at_or_after(@, time)),
            !.frequency =
                IF @ = None THEN None
                ELSE IF \A i \in 1..Len(@[1]) : @[1][i].time < time THEN None
                ELSE Some(truncate_frequency(@[1], time,
                                             position_at_or_after(@[1], time)))])

\* ------------------------------------------------ android: clip to waveform

\* const Q_BITS in convert_clip_to_waveform
Q_BITS == 8

\* const MIN_TIME_STEP in convert_clip_to_waveform: 25 ms, which is one tick for the
\* waveform player
MIN_TIME_STEP == 1

\* struct Waveform
Waveform(timings, amplitudes) == [timings |-> timings, amplitudes |-> amplitudes]

\* const EMPHASIS_AMPLITUDE: 1.0, the highest amplitude
EMPHASIS_AMPLITUDE == 4

\* struct EmphasisParameters, its three lengths in ticks
EmphasisParameters(ducking_before_length, emphasis_length, ducking_after_length, ducking_amplitude) ==
    [ducking_before_length |-> ducking_before_length,
     emphasis_length |-> emphasis_length,
     ducking_after_length |-> ducking_after_length,
     ducking_amplitude |-> ducking_amplitude]

\* The parameters convert_clip_to_waveform passes: the default lengths of 30 ms, one
\* tick each to the nearest tick, and the ducking amplitude 1.1 / 255.0, the lowest
\* amplitude of the grid
AndroidEmphasisParameters == EmphasisParameters(1, 1, 1, 0)

\* v1::AmplitudeBreakpoint::from_interpolated_breakpoints
from_interpolated_breakpoints(breakpoint_a, breakpoint_b, time) ==
    AmplitudeBreakpoint(time,
                        interpolate(breakpoint_a.time, breakpoint_b.time,
                                    breakpoint_a.amplitude, breakpoint_b.amplitude, time),
                        None)

\* C29 excludes: the time 0.0 whatever was appended, so that no inserted time is
\* clamped
last_time_unclamped(result) == 0

\* self.result.last() of the Emphasizer, as a time: 0.0 when nothing was appended yet
last_time(result) == IF Last(result) # None THEN Last(result)[1].time ELSE 0

\* The first breakpoint with emphasis at or after the 0-based index from:
\* amplitude_breakpoints[from..].iter().find(|breakpoint| breakpoint.emphasis.is_some())
find_emphasis(amplitude_breakpoints, from) ==
    LET found == {i \in (from + 1)..Len(amplitude_breakpoints) :
                      amplitude_breakpoints[i].emphasis # None}
    IN  IF found = {} THEN None
        ELSE Some(amplitude_breakpoints[CHOOSE i \in found : \A j \in found : i <= j])

\* Emphasizer::process_normal_breakpoint
process_normal_breakpoint(result, parameters, breakpoint, prev_emphasis, next_emphasis) ==
    LET skip_due_to_ducking_before ==
            /\ next_emphasis # None
            /\ Max(next_emphasis[1].time - parameters.ducking_before_length, 0)
                   <= breakpoint.time
            /\ breakpoint.time <= next_emphasis[1].time
        skip_due_to_emphasis_and_ducking_after ==
            /\ prev_emphasis # None
            /\ prev_emphasis[1].time <= breakpoint.time
            /\ breakpoint.time <= prev_emphasis[1].time + parameters.emphasis_length
                                      + parameters.ducking_after_length
    IN  IF skip_due_to_ducking_before \/ skip_due_to_emphasis_and_ducking_after
        THEN result
        ELSE Append(result, breakpoint)

\* Emphasizer::process_ducking_before_area, emphasis_index being 0-based
process_ducking_before_area(result, parameters, amplitude_breakpoints, emphasis_index) ==
    LET emphasis_breakpoint == amplitude_breakpoints[emphasis_index + 1]
        ducking_before_start ==
            Max(Max(emphasis_breakpoint.time - parameters.ducking_before_length, 0),
                last_time(result))
        before == {i \in 1..emphasis_index :
                       amplitude_breakpoints[i].time < ducking_before_start}
        index_before_ducking_before == CHOOSE i \in before : \A j \in before : j <= i
        breakpoint_at_ducking_before_start ==
            from_interpolated_breakpoints(
                amplitude_breakpoints[index_before_ducking_before],
                amplitude_breakpoints[index_before_ducking_before + 1],
                ducking_before_start)
    IN  IF emphasis_breakpoint.time <= last_time(result) THEN result
        ELSE (IF before # {} THEN Append(result, breakpoint_at_ducking_before_start)
              ELSE result)
             \o <<AmplitudeBreakpoint(ducking_before_start, parameters.ducking_amplitude,
                                      None),
                  AmplitudeBreakpoint(emphasis_breakpoint.time,
                                      parameters.ducking_amplitude, None)>>

\* Emphasizer::process_emphasis_and_ducking_after_area, emphasis_index being 0-based
process_emphasis_and_ducking_after_area(result, parameters, amplitude_breakpoints, emphasis_index) ==
    LET emphasis_breakpoint == amplitude_breakpoints[emphasis_index + 1]
        emphasis_start == Max(emphasis_breakpoint.time, last_time(result))
        emphasis_end == Max(emphasis_breakpoint.time + parameters.emphasis_length,
                            last_time(result))
        ducking_after_end == emphasis_end + parameters.ducking_after_length
        after == {i \in (emphasis_index + 2)..Len(amplitude_breakpoints) :
                      amplitude_breakpoints[i].time > ducking_after_end}
        index_after_ducking_after == CHOOSE i \in after : \A j \in after : i <= j
        emphasis == <<AmplitudeBreakpoint(emphasis_start, EMPHASIS_AMPLITUDE, None),
                      AmplitudeBreakpoint(emphasis_end, EMPHASIS_AMPLITUDE, None)>>
        ducking_after ==
            <<AmplitudeBreakpoint(emphasis_end, parameters.ducking_amplitude, None),
              AmplitudeBreakpoint(ducking_after_end, parameters.ducking_amplitude, None)>>
    IN  IF emphasis_end - emphasis_start <= 0 THEN result
        ELSE IF emphasis_index = Len(amplitude_breakpoints) - 1 THEN result \o emphasis
        ELSE IF after = {} THEN result \o emphasis \o ducking_after
        ELSE Append(result \o emphasis \o ducking_after,
                    from_interpolated_breakpoints(
                        amplitude_breakpoints[index_after_ducking_after - 1],
                        amplitude_breakpoints[index_after_ducking_after],
                        ducking_after_end))

\* Emphasizer::process_emphasis_breakpoint
process_emphasis_breakpoint(result, parameters, amplitude_breakpoints, emphasis_index) ==
    process_emphasis_and_ducking_after_area(
        process_ducking_before_area(result, parameters, amplitude_breakpoints,
                                    emphasis_index),
        parameters, amplitude_breakpoints, emphasis_index)

RECURSIVE emphasizer_process(_, _, _, _, _, _)
\* Emphasizer::process from the breakpoint at the 0-based index on
emphasizer_process(result, parameters, amplitude_breakpoints, index, prev_emphasis, next_emphasis) ==
    IF index >= Len(amplitude_breakpoints) THEN result
    ELSE IF amplitude_breakpoints[index + 1].emphasis = None
    THEN emphasizer_process(
             process_normal_breakpoint(result, parameters, amplitude_breakpoints[index + 1],
                                       prev_emphasis, next_emphasis),
             parameters, amplitude_breakpoints, index + 1, prev_emphasis, next_emphasis)
    ELSE emphasizer_process(
             process_emphasis_breakpoint(result, parameters, amplitude_breakpoints, index),
             parameters, amplitude_breakpoints, index + 1, next_emphasis,
             find_emphasis(amplitude_breakpoints, index + 1))

\* emphasis::emphasize
emphasize(amplitude_breakpoints, parameters) ==
    emphasizer_process(<<>>, parameters, amplitude_breakpoints, 0, None,
                       find_emphasis(amplitude_breakpoints, 0))

\* Interpolator::linear_space_interpolation: the (time, amplitude) points of a segment
linear_space_interpolation(time_a, time_b, amp_a, amp_b) ==
    LET interval == time_b - time_a
        total_points == interval \div MIN_TIME_STEP + 1
        linspace(k) == time_a + (interval * (k - 1)) \div (total_points - 1)
    IN  IF interval > MIN_TIME_STEP /\ total_points >= 3
        THEN [k \in 1..total_points |->
                 [time |-> linspace(k),
                  amplitude |-> interpolate(time_a, time_b, amp_a, amp_b,
                                            Max(Min(linspace(k), time_b), time_a))]]
        ELSE <<[time |-> time_a, amplitude |-> amp_a],
               [time |-> time_b, amplitude |-> amp_b]>>

\* round(amp * q_depth) in Interpolator::remove_redundant_amplitudes
amp_quantized(amp) ==
    (2 * amp * (2 ^ Q_BITS) + MAX_ENVELOPE_AMPLITUDE) \div (2 * MAX_ENVELOPE_AMPLITUDE)

RECURSIVE remove_redundant_from(_, _, _, _)
\* The loop of Interpolator::remove_redundant_amplitudes from point index on
remove_redundant_from(points, index, current_quantization_bin, kept) ==
    IF index > Len(points) THEN kept
    ELSE IF /\ amp_quantized(points[index].amplitude) = current_quantization_bin
            /\ points[index].time # points[1].time
            /\ points[index].time # points[Len(points)].time
         THEN remove_redundant_from(points, index + 1, current_quantization_bin, kept)
         ELSE remove_redundant_from(points, index + 1,
                  amp_quantized(points[index].amplitude),
                  Append(kept, AmplitudeBreakpoint(points[index].time,
                                                   points[index].amplitude, None)))

\* Interpolator::remove_redundant_amplitudes
remove_redundant_amplitudes(points) == remove_redundant_from(points, 1, 0, <<>>)

RECURSIVE interpolator_process(_, _)
\* Interpolator::process from breakpoint index on
interpolator_process(amplitude_breakpoints, index) ==
    IF index > Len(amplitude_breakpoints) THEN <<>>
    ELSE IF index = 1 THEN interpolator_process(amplitude_breakpoints, 2)
    ELSE remove_redundant_amplitudes(
             linear_space_interpolation(amplitude_breakpoints[index - 1].time,
                                        amplitude_breakpoints[index].time,
                                        amplitude_breakpoints[index - 1].amplitude,
                                        amplitude_breakpoints[index].amplitude))
         \o interpolator_process(amplitude_breakpoints, index + 1)

RECURSIVE from_breakpoints_from(_, _, _, _, _)
\* The loop of Waveform::from_breakpoints from the pair starting at index on
from_breakpoints_from(breakpoints, index, max_amplitude, accumulated_duration, waveform) ==
    IF index + 1 > Len(breakpoints) THEN waveform
    ELSE LET breakpoint_a == breakpoints[index]
             breakpoint_b == breakpoints[index + 1]
             duration == breakpoint_b.time - breakpoint_a.time
             timing_error_ms == breakpoint_a.time - accumulated_duration
             duration_ms == duration + timing_error_ms
         IN  IF duration > 0 /\ duration_ms > 0
             THEN from_breakpoints_from(breakpoints, index + 1, max_amplitude,
                      accumulated_duration + duration_ms,
                      Waveform(Append(waveform.timings, duration_ms),
                               Append(waveform.amplitudes,
                                      (breakpoint_a.amplitude * max_amplitude)
                                          \div MAX_ENVELOPE_AMPLITUDE)))
             ELSE from_breakpoints_from(breakpoints, index + 1, max_amplitude,
                      accumulated_duration, waveform)

\* Waveform::from_breakpoints
from_breakpoints(breakpoints, max_amplitude) ==
    from_breakpoints_from(breakpoints, 1, max_amplitude, 0, Waveform(<<>>, <<>>))

\* android::convert_clip_to_waveform
convert_clip_to_waveform(clip) ==
    from_breakpoints(
        interpolator_process(emphasize(clip.amplitude, AndroidEmphasisParameters), 1),
        2 ^ Q_BITS - 1)

\* android::apply_amplitude_multiplication
waveform_apply_amplitude_multiplication(waveform, factor) ==
    IF factor < 0 THEN waveform
    ELSE Waveform(waveform.timings,
                  [i \in 1..Len(waveform.amplitudes) |->
                      Max(Min(Min(waveform.amplitudes[i] * factor, 255), 255), 0)])

\* ------------------------------------------------ android: the haptic thread

\* The state of android::command_loop, with the host callbacks invoked during the
\* current step
HapticThread ==
    [original_clip |-> original_clip, original_waveform |-> original_waveform,
     amplitude_multiplication_factor |-> amplitude_multiplication_factor,
     is_looping_enabled |-> is_looping_enabled, callbacks |-> <<>>]

\* An invocation of Callbacks::load_clip
load_clip(waveform, looping, returned) ==
    [callback |-> "load_clip", timings |-> waveform.timings,
     amplitudes |-> waveform.amplitudes, looping |-> looping, returned |-> returned]

\* An invocation of Callbacks::seek_clip
seek_clip(waveform, returned) ==
    [callback |-> "seek_clip", timings |-> waveform.timings,
     amplitudes |-> waveform.amplitudes, returned |-> returned]

\* An invocation of Callbacks::play_clip, stop_clip or unload_clip
plain_callback(name, returned) == [callback |-> name, returned |-> returned]

\* A PlayerCommand::Load of the haptic thread that keeps the amplitude
\* multiplication factor set before: the behaviour C17 excludes
AndroidLoadKeepingFactor(self, data, returned) ==
    [self EXCEPT !.is_looping_enabled = FALSE,
                 !.original_clip = Some(data),
                 !.callbacks = Append(@, load_clip(convert_clip_to_waveform(data), FALSE,
                                                   returned)),
                 !.original_waveform = Some(convert_clip_to_waveform(data))]

\* android::command_loop, PlayerCommand::Load
AndroidLoad(self, data, returned) ==
    LET waveform == convert_clip_to_waveform(data)
    IN  [self EXCEPT !.amplitude_multiplication_factor = 1,
                     !.is_looping_enabled = FALSE,
                     !.original_clip = Some(data),
                     !.callbacks = Append(@, load_clip(waveform, FALSE, returned)),
                     !.original_waveform = Some(waveform)]

\* android::command_loop, PlayerCommand::Unload
AndroidUnload(self, returned) ==
    [self EXCEPT !.original_clip = None,
                 !.original_waveform = None,
                 !.callbacks = Append(@, plain_callback("unload_clip", returned))]

\* android::command_loop, PlayerCommand::Seek: the waveform passed to seek_clip when
\* truncate_before has returned clip_truncated
seek_waveform(clip_truncated, factor) ==
    IF clip_truncated # None
    THEN waveform_apply_amplitude_multiplication(
             convert_clip_to_waveform(clip_truncated[1]), factor)
    ELSE Waveform(<<>>, <<>>)

\* PlayerCommand::Seek of the haptic thread when it seeks whether or not looping is
\* enabled
AndroidSeekWhileLooping(self, seek_time, returned) ==
    IF self.original_clip # None
    THEN [self EXCEPT !.callbacks =
              Append(@, seek_clip(seek_waveform(
                                      truncate_before(self.original_clip[1],
                                                      Max(seek_time, 0)),
                                      self.amplitude_multiplication_factor),
                                  returned))]
    ELSE self

\* android::command_loop, PlayerCommand::Seek
AndroidSeek(self, seek_time, returned) ==
    IF ~self.is_looping_enabled /\ self.original_clip # None
    THEN [self EXCEPT !.callbacks =
              Append(@, seek_clip(seek_waveform(
                                      truncate_before(self.original_clip[1],
                                                      Max(seek_time, 0)),
                                      self.amplitude_multiplication_factor),
                                  returned))]
    ELSE self

\* android::command_loop, PlayerCommand::SetAmplitudeMultiplication
AndroidSetAmplitudeMultiplication(self, multiplication_factor, returned) ==
    IF self.original_waveform # None
    THEN [self EXCEPT
             !.amplitude_multiplication_factor = multiplication_factor,
             !.callbacks = Append(@, load_clip(
                 waveform_apply_amplitude_multiplication(self.original_waveform[1],
                                                         multiplication_factor),
                 self.is_looping_enabled, returned))]
    ELSE self

\* android::command_loop, PlayerCommand::Loop
AndroidLoop(self, enabled, returned) ==
    IF self.original_waveform # None
    THEN [self EXCEPT
             !.is_looping_enabled = enabled,
             !.callbacks = Append(@, load_clip(self.original_waveform[1], enabled,
                                              returned))]
    ELSE [self EXCEPT !.is_looping_enabled = enabled]

\* android::command_loop: the match on a received command other than Quit
AndroidDispatch(self, command, returned) ==
    CASE command.cmd = "Load" -> AndroidLoad(self, command.data, returned)
      [] command.cmd = "Unload" -> AndroidUnload(self, returned)
      [] command.cmd = "Play" ->
             [self EXCEPT !.callbacks = Append(@, plain_callback("play_clip", returned))]
      [] command.cmd = "Stop" ->
             [self EXCEPT !.callbacks = Append(@, plain_callback("stop_clip", returned))]
      [] command.cmd = "Seek" -> AndroidSeek(self, command.seek_time, returned)
      [] command.cmd = "SetAmplitudeMultiplication" ->
             AndroidSetAmplitudeMultiplication(self, command.multiplication_factor,
                                               returned)
      [] command.cmd = "Loop" -> AndroidLoop(self, command.enabled, returned)

\* ---------------------------------------------------------------- facades

\* The Player of the backend in use, with the value its last method returned
Player ==
    [clip_loaded |-> clip_loaded, haptic_clip |-> haptic_clip, queue |-> queue,
     value |-> Ok]

\* Player::send_command of both threaded players: Sender::send fails once the
\* receiver has gone, which happens when the worker thread ends
send_command(self, command, command_name) ==
    IF thread = "running"
    THEN [self EXCEPT !.queue = Append(@, command), !.value = Ok]
    ELSE [self EXCEPT !.value = Err("Unable to send \"" \o command_name \o "\" command")]

\* A channel that hands out the newest command first: the behaviour C9 excludes
recv_newest(channel) == channel[Len(channel)]

\* The head of the channel, which Receiver::recv and recv_timeout take
recv(channel) == Head(channel)

\* streaming::Player::load
streaming_load(self, data_model) ==
    LET sent == send_command(self, Load(data_model), "Load")
    IN  IF sent.value # Ok THEN sent ELSE [sent EXCEPT !.clip_loaded = TRUE]

\* streaming::Player::unload
streaming_unload(self) ==
    LET sent == send_command(self, Unload, "Unload")
    IN  IF sent.value # Ok THEN sent ELSE [sent EXCEPT !.clip_loaded = FALSE]

\* A streaming::Player::play that sends Play whether a clip is loaded or not: the
\* behaviour C33 excludes
streaming_play_unchecked(self) == send_command(self, Play, "Play")

\* streaming::Player::play
streaming_play(self) ==
    IF ~self.clip_loaded THEN [self EXCEPT !.value = Err("Unable to play, no clip loaded.")]
    ELSE send_command(self, Play, "Play")

\* A streaming::Player::stop that fails without a clip, as play does: the behaviour
\* C6 excludes
streaming_stop_checked(self) ==
    IF ~self.clip_loaded THEN [self EXCEPT !.value = Err("Unable to stop, no clip loaded.")]
    ELSE send_command(self, Stop, "Stop")

\* streaming::Player::stop
streaming_stop(self) ==
    IF self.clip_loaded THEN send_command(self, Stop, "Stop")
    ELSE [self EXCEPT !.value = Ok]

\* streaming::Player::seek
streaming_seek(self, seek_time) ==
    IF ~self.clip_loaded THEN [self EXCEPT !.value = Err("Unable to seek, no clip loaded.")]
    ELSE send_command(self, Seek(seek_time), "Seek")

\* streaming::Player::set_amplitude_multiplication
streaming_set_amplitude_multiplication(self, multiplication_factor) ==
    IF ~self.clip_loaded
    THEN [self EXCEPT !.value =
              Err("Unable to set amplitude multiplication, no clip loaded.")]
    ELSE send_command(self, SetAmplitudeMultiplication(multiplication_factor),
                      "SetAmplitudeMultiplication")

\* streaming::Player::set_frequency_shift
streaming_set_frequency_shift(self, shift) ==
    IF ~self.clip_loaded
    THEN [self EXCEPT !.value = Err("Unable to set frequency shift, no clip loaded.")]
    ELSE send_command(self, SetFrequencyShift(shift), "SetFrequencyShift")

\* streaming::Player::set_looping
streaming_set_looping(self, enabled) ==
    IF ~self.clip_loaded THEN [self EXCEPT !.value = Err("Unable to loop, no clip loaded.")]
    ELSE send_command(self, Loop(enabled), "Loop")

\* android::Player::load
android_load(self, data_model) ==
    LET sent == send_command(self, Load(data_model), "Load")
    IN  IF sent.value # Ok THEN sent ELSE [sent EXCEPT !.clip_loaded = TRUE]

\* android::Player::unload
android_unload(self) ==
    LET sent == send_command(self, Unload, "Unload")
    IN  IF sent.value # Ok THEN sent ELSE [sent EXCEPT !.clip_loaded = FALSE]

\* android::Player::play
android_play(self) ==
    IF ~self.clip_loaded THEN [self EXCEPT !.value = Err("Unable to play, no clip loaded.")]
    ELSE send_command(self, Play, "Play")

\* android::Player::stop
android_stop(self) ==
    IF self.clip_loaded THEN send_command(self, Stop, "Stop")
    ELSE [self EXCEPT !.value = Ok]

\* android::Player::seek
android_seek(self, seek_time) ==
    IF ~self.clip_loaded THEN [self EXCEPT !.value = Err("Unable to seek, no clip loaded.")]
    ELSE send_command(self, Seek(seek_time), "Seek")

\* android::Player::set_amplitude_multiplication
android_set_amplitude_multiplication(self, multiplication_factor) ==
    IF ~self.clip_loaded
    THEN [self EXCEPT !.value =
              Err("Unable to set amplitude multiplication, no clip loaded.")]
    ELSE send_command(self, SetAmplitudeMultiplication(multiplication_factor),
                      "SetAmplitudeMultiplication")

\* android::Player::set_frequency_shift
android_set_frequency_shift(self, shift) ==
    [self EXCEPT !.value = Err("Frequency shift is not supported on Android.")]

\* An android::Player::set_looping without the check of clip_loaded: the behaviour
\* C5 excludes
android_set_looping_unchecked(self, enabled) == send_command(self, Loop(enabled), "Loop")

\* android::Player::set_looping
android_set_looping(self, enabled) ==
    IF ~self.clip_loaded THEN [self EXCEPT !.value = Err("Unable to loop, no clip loaded.")]
    ELSE send_command(self, Loop(enabled), "Loop")

\* null::Player::load
null_load(self, data_model) == [self EXCEPT !.haptic_clip = Some(data_model), !.value = Ok]

\* null::Player::unload
null_unload(self) == [self EXCEPT !.haptic_clip = None, !.value = Ok]

\* null::Player::play
null_play(self) ==
    [self EXCEPT !.value = IF self.haptic_clip # None THEN Ok
                           ELSE Err("Player play: no clip loaded")]

\* null::Player::stop
null_stop(self) ==
    [self EXCEPT !.value = IF self.haptic_clip # None THEN Ok
                           ELSE Err("Player stop: no clip loaded")]

\* null::Player::seek
null_seek(self, seek_time) ==
    [self EXCEPT !.value = IF self.haptic_clip # None THEN Ok
                           ELSE Err("Player seek: no clip loaded")]

\* null::Player::set_amplitude_multiplication
null_set_amplitude_multiplication(self, multiplication_factor) ==
    [self EXCEPT !.value = IF self.haptic_clip # None THEN Ok
                           ELSE Err("Player set_amplitude_multiplication: no clip loaded")]

\* null::Player::set_frequency_shift
null_set_frequency_shift(self, shift) ==
    [self EXCEPT !.value = IF self.haptic_clip # None THEN Ok
                           ELSE Err("Player set_frequency_shift: no clip loaded")]

\* null::Player::set_looping
null_set_looping(self, enabled) ==
    [self EXCEPT !.value = IF self.haptic_clip # None THEN Ok
                           ELSE Err("Player set_looping: no clip loaded")]

\* trait PreAuthoredClipPlayback, dispatched to the player the controller owns
load(self, data_model) ==
    CASE backend = "streaming" -> streaming_load(self, data_model)
      [] backend = "waveform" -> android_load(self, data_model)
      [] backend = "null" -> null_load(self, data_model)

unload(self) ==
    CASE backend = "streaming" -> streaming_unload(self)
      [] backend = "waveform" -> android_unload(self)
      [] backend = "null" -> null_unload(self)

play(self) ==
    CASE backend = "streaming" -> streaming_play(self)
      [] backend = "waveform" -> android_play(self)
      [] backend = "null" -> null_play(self)

stop(self) ==
    CASE backend = "streaming" -> streaming_stop(self)
      [] backend = "waveform" -> android_stop(self)
      [] backend = "null" -> null_stop(self)

seek(self, seek_time) ==
    CASE backend = "streaming" -> streaming_seek(self, seek_time)
      [] backend = "waveform" -> android_seek(self, seek_time)
      [] backend = "null" -> null_seek(self, seek_time)

set_amplitude_multiplication(self, multiplication_factor) ==
    CASE backend = "streaming" ->
             streaming_set_amplitude_multiplication(self, multiplication_factor)
      [] backend = "waveform" ->
             android_set_amplitude_multiplication(self, multiplication_factor)
      [] backend = "null" -> null_set_amplitude_multiplication(self, multiplication_factor)

set_frequency_shift(self, shift) ==
    CASE backend = "streaming" -> streaming_set_frequency_shift(self, shift)
      [] backend = "waveform" -> android_set_frequency_shift(self, shift)
      [] backend = "null" -> null_set_frequency_shift(self, shift)

set_looping(self, enabled) ==
    CASE backend = "streaming" -> streaming_set_looping(self, enabled)
      [] backend = "waveform" -> android_set_looping(self, enabled)
      [] backend = "null" -> null_set_looping(self, enabled)

\* ------------------------------------------------------- HapticsController

\* struct HapticsController: its clip_duration and its pre_authored_clip_player
HapticsController == [clip_duration |-> clip_duration, player |-> Player]

\* The time of the last amplitude breakpoint of a clip, 0.0 for one without any
EndOfAmplitude(clip) ==
    IF clip.amplitude = <<>> THEN 0 ELSE clip.amplitude[Len(clip.amplitude)].time

\* A HapticsController::load that parses before it unloads and so keeps the clip
\* loaded before when the data is invalid: the behaviour C7 excludes
load_parsed_first(self, unloaded, haptic_data) ==
    IF haptic_data = None
    THEN [self EXCEPT !.player = [@ EXCEPT !.value = Err("invalid clip")]]
    ELSE IF unloaded.value # Ok THEN [self EXCEPT !.player = unloaded]
    ELSE [self EXCEPT !.clip_duration = EndOfAmplitude(haptic_data[1]),
                      !.player = load(unloaded, haptic_data[1])]

\* HapticsController::load, once the player's unload has left the player as unloaded
\* and latest_from_json has returned haptic_data
load_parsed(self, unloaded, haptic_data) ==
    IF unloaded.value # Ok THEN [self EXCEPT !.player = unloaded]
    ELSE IF haptic_data = None
         THEN [self EXCEPT !.player = [unloaded EXCEPT !.value = Err("invalid clip")]]
         ELSE [self EXCEPT !.clip_duration = EndOfAmplitude(haptic_data[1]),
                           !.player = load(unloaded, haptic_data[1])]

\* HapticsController::load
controller_load(self, data) == load_parsed(self, unload(self.player), latest_from_json(data))

\* HapticsController::get_clip_duration
get_clip_duration(self) == self.clip_duration

\* HapticsController::set_amplitude_multiplication
controller_set_amplitude_multiplication(self, multiplication_factor) ==
    IF multiplication_factor < 0
    THEN [self EXCEPT !.player.value =
              Err("Unable to apply amplitude multiplication factor")]
    ELSE [self EXCEPT !.player = set_amplitude_multiplication(@, multiplication_factor)]

\* HapticsController::set_frequency_shift
controller_set_frequency_shift(self, shift) ==
    IF shift < -MAX_ENVELOPE_AMPLITUDE \/ shift > MAX_ENVELOPE_AMPLITUDE
    THEN [self EXCEPT !.player.value = Err("Unable to apply frequency shift")]
    ELSE [self EXCEPT !.player = set_frequency_shift(@, shift)]

\* ------------------------------------------------------------------ inputs

\* A clip with three amplitude breakpoints and a frequency envelope
ClipA ==
    DataModel(CURRENT,
              <<AmplitudeBreakpoint(0, 1, NoEmphasis), AmplitudeBreakpoint(2, 3, NoEmphasis),
                AmplitudeBreakpoint(4, 1, NoEmphasis)>>,
              Some(<<FrequencyBreakpoint(0, 4), FrequencyBreakpoint(2, 2)>>))

\* A clip that starts after time 0 and has no frequency envelope
ClipB ==
    DataModel(CURRENT,
              <<AmplitudeBreakpoint(1, 4, NoEmphasis), AmplitudeBreakpoint(4, 0, NoEmphasis)>>,
              None)

\* A file of a version the SDK does not support
FileUnsupported == DataModel(Version(2, 0, 0), ClipB.amplitude, None)

\* A file whose amplitude envelope is empty
FileEmpty == DataModel(CURRENT, <<>>, None)

Backends == {"streaming", "waveform", "null"}

Files == {ClipA, ClipB, FileUnsupported, FileEmpty}

SeekTimes == {-1, 1, 5}

MultiplicationFactors == {-1, 2}

FrequencyShifts == {-2, 8}

CallbackResults == {Ok, "Err"}

\* -------------------------------------------------------------------- steps

Init ==
    /\ backend \in Backends
    /\ debug_assertions \in (IF backend = "streaming" THEN BOOLEAN ELSE {FALSE})
    /\ clip_duration = 0
    /\ clip_loaded = FALSE
    /\ haptic_clip = None
    /\ dropped = FALSE
    /\ queue = <<>>
    /\ thread = IF backend = "null" THEN "none" ELSE "running"
    /\ event_provider = None
    /\ start_time = None
    /\ play_delay = None
    /\ looping_enabled = FALSE
    /\ original_clip = None
    /\ original_waveform = None
    /\ amplitude_multiplication_factor = 1
    /\ is_looping_enabled = FALSE
    /\ emitted = <<>>
    /\ last = [step |-> "Init"]
    /\ processed = None

\* What a call on the caller thread leaves behind: the controller's and the facade's
\* fields, the command channel and the value returned
Called(call, controller) ==
    /\ clip_duration' = controller.clip_duration
    /\ clip_loaded' = controller.player.clip_loaded
    /\ haptic_clip' = controller.player.haptic_clip
    /\ queue' = controller.player.queue
    /\ last' = [step |-> "Call", call |-> call, value |-> controller.player.value]
    /\ emitted' = <<>>
    /\ UNCHANGED <<backend, debug_assertions, dropped, thread, event_provider, start_time,
                   play_delay, looping_enabled, original_clip, original_waveform,
                   amplitude_multiplication_factor, is_looping_enabled, processed>>

\* The caller may call while the player lives and fewer than MaxQueue commands wait
MayCall == ~dropped /\ Len(queue) < MaxQueue

ControllerLoad ==
    /\ MayCall
    /\ \E data \in Files : Called("load", controller_load(HapticsController, data))

\* PreAuthoredClipPlayback::load called on the player the controller exposes, with a
\* clip that latest_from_json has produced
PlayerLoad ==
    /\ MayCall
    /\ \E data \in {file \in Files : latest_from_json(file) # None} :
           Called("player_load",
                  [HapticsController EXCEPT
                       !.player = load(@, latest_from_json(data)[1])])

PlayerUnload ==
    /\ MayCall
    /\ Called("unload", [HapticsController EXCEPT !.player = unload(@)])

ControllerPlay ==
    /\ MayCall
    /\ Called("play", [HapticsController EXCEPT !.player = play(@)])

ControllerStop ==
    /\ MayCall
    /\ Called("stop", [HapticsController EXCEPT !.player = stop(@)])

ControllerSeek ==
    /\ MayCall
    /\ \E time \in SeekTimes :
           Called("seek", [HapticsController EXCEPT !.player = seek(@, time)])

ControllerSetLooping ==
    /\ MayCall
    /\ \E enabled \in BOOLEAN :
           Called("set_looping", [HapticsController EXCEPT !.player = set_looping(@, enabled)])

ControllerSetAmplitudeMultiplication ==
    /\ MayCall
    /\ \E multiplication_factor \in MultiplicationFactors :
           Called("set_amplitude_multiplication",
                  controller_set_amplitude_multiplication(HapticsController,
                                                          multiplication_factor))

ControllerSetFrequencyShift ==
    /\ MayCall
    /\ \E shift \in FrequencyShifts :
           Called("set_frequency_shift",
                  controller_set_frequency_shift(HapticsController, shift))

\* Drop for Player of the threaded players: Quit is sent and the thread is joined
DropPlayer ==
    /\ backend # "null"
    /\ dropped' = TRUE
    /\ queue' = send_command(Player, Quit, "Quit").queue
    /\ last' = [step |-> "Drop"]
    /\ emitted' = <<>>
    /\ UNCHANGED <<backend, debug_assertions, clip_duration, clip_loaded, haptic_clip,
                   thread, event_provider, start_time, play_delay, looping_enabled,
                   original_clip, original_waveform, amplitude_multiplication_factor,
                   is_looping_enabled, processed>>

\* The player is dropped while no command waits
Drop == MayCall /\ DropPlayer

\* The threads a drop of the player can run on: the thread of the caller, and the
\* thread of the player itself, inside a callback of the host
CallerThread == "caller"
PlayerThread == "player"

\* Drop for streaming::Player: the thread is joined unless the drop runs on it,
\* join_handle.thread().id() != thread::current().id()
streaming_drop_joins(current) == current # PlayerThread

\* Drop for android::Player: the thread is always joined
android_drop_joins(current) == TRUE

\* What JoinHandle::join does to the thread of the player. Joined from another thread
\* the thread runs on until it receives Quit; joined from itself the join cannot
\* complete: it panics where the platform detects the self-join and blocks for ever
\* where it does not.
join(joins, current) ==
    IF joins /\ current = PlayerThread THEN {"panicked", "deadlocked"} ELSE {"running"}

\* Drop for Player of the threaded players run on the thread of the player, inside a
\* callback the thread has just made to the host
DropInCallback ==
    /\ MayCall
    /\ backend # "null"
    /\ thread = "running"
    /\ last.step \in {"Recv", "Timeout"}
    /\ emitted # <<>>
    /\ dropped' = TRUE
    /\ queue' = send_command(Player, Quit, "Quit").queue
    /\ thread' \in join(IF backend = "streaming"
                        THEN streaming_drop_joins(PlayerThread)
                        ELSE android_drop_joins(PlayerThread), PlayerThread)
    /\ last' = [step |-> "Drop", thread |-> PlayerThread]
    /\ emitted' = <<>>
    /\ UNCHANGED <<backend, debug_assertions, clip_duration, clip_loaded, haptic_clip,
                   event_provider, start_time, play_delay, looping_enabled,
                   original_clip, original_waveform, amplitude_multiplication_factor,
                   is_looping_enabled, processed>>

\* The worker holds an amplitude multiplication other than 1.0 or a frequency shift
\* other than 0.0
Modulated ==
    IF backend = "streaming"
    THEN /\ event_provider # None
         /\ \/ event_provider[1].amplitude_multiplication # 1
            \/ event_provider[1].frequency_shift # 0
    ELSE amplitude_multiplication_factor # 1

\* What a step of the streaming thread leaves behind
Streamed(step, after) ==
    /\ event_provider' = after.event_provider
    /\ start_time' = after.start_time
    /\ play_delay' = after.play_delay
    /\ looping_enabled' = after.looping_enabled
    /\ emitted' = after.callbacks
    /\ thread' = IF after.panicked THEN "panicked" ELSE thread
    /\ last' = [step |-> step, playing |-> start_time # None]
    /\ UNCHANGED <<backend, debug_assertions, clip_duration, clip_loaded, haptic_clip,
                   dropped, original_clip, original_waveform,
                   amplitude_multiplication_factor, is_looping_enabled>>

\* streaming::command_loop, recv_timeout returns Ok(command)
StreamingRecv ==
    /\ backend = "streaming"
    /\ thread = "running"
    /\ queue # <<>>
    /\ queue' = Tail(queue)
    /\ processed' = Some([command |-> recv(queue), playing |-> start_time # None,
                           modulated |-> Modulated])
    /\ IF recv(queue) = Quit
       THEN /\ thread' = "exited"
            /\ emitted' = <<>>
            /\ last' = [step |-> "Recv", playing |-> start_time # None]
            /\ UNCHANGED <<backend, debug_assertions, clip_duration, clip_loaded,
                           haptic_clip, dropped, event_provider, start_time, play_delay,
                           looping_enabled, original_clip, original_waveform,
                           amplitude_multiplication_factor, is_looping_enabled>>
       ELSE Streamed("Recv", Dispatch(EventSender, recv(queue)))

\* streaming::command_loop, recv_timeout returns Err(Timeout): the time to the next
\* event has passed, or DEFAULT_TIME_TO_SLEEP has passed while nothing is playing
StreamingTimeout ==
    /\ backend = "streaming"
    /\ thread = "running"
    /\ queue = <<>>
    /\ time_to_next_event(EventSender) \in
           {0} \cup (IF start_time = None THEN {DEFAULT_TIME_TO_SLEEP} ELSE {})
    /\ Streamed("Timeout", send_next_event(EventSender))
    /\ UNCHANGED <<queue, processed>>

\* One tick of time passes while a clip is playing and the streaming thread waits
\* for the next event or the next command
Tick ==
    /\ backend = "streaming"
    /\ thread = "running"
    /\ start_time # None
    /\ queue = <<>>
    /\ time_to_next_event(EventSender) > 0
    /\ Now - start_time[1] < MaxPlayhead
    /\ start_time' = Some(start_time[1] - 1)
    /\ emitted' = <<>>
    /\ last' = [step |-> "Tick"]
    /\ UNCHANGED <<backend, debug_assertions, clip_duration, clip_loaded, haptic_clip,
                   dropped, queue, thread, event_provider, play_delay, looping_enabled,
                   original_clip, original_waveform, amplitude_multiplication_factor,
                   is_looping_enabled, processed>>

\* A haptic thread that leaves its loop when a callback returns an error: the
\* behaviour C18 excludes
thread_stopped_by_errors(callbacks) ==
    IF \E i \in 1..Len(callbacks) : callbacks[i].returned # Ok THEN "exited" ELSE thread

\* android::command_loop, `if let Err(error) = (callbacks...)(...) { log::error!(...) }`:
\* the state of the haptic thread after the callbacks of a command have returned,
\* an error being logged and nothing else
thread_after_callbacks(callbacks) == thread

\* What a command leaves behind in the haptic thread
Vibrated(after) ==
    /\ original_clip' = after.original_clip
    /\ original_waveform' = after.original_waveform
    /\ amplitude_multiplication_factor' = after.amplitude_multiplication_factor
    /\ is_looping_enabled' = after.is_looping_enabled
    /\ emitted' = after.callbacks
    /\ thread' = thread_after_callbacks(after.callbacks)

\* android::command_loop, recv returns Ok(command)
AndroidRecv ==
    /\ backend = "waveform"
    /\ thread = "running"
    /\ queue # <<>>
    /\ queue' = Tail(queue)
    /\ processed' = Some([command |-> recv(queue), playing |-> FALSE,
                           modulated |-> Modulated])
    /\ last' = [step |-> "Recv", playing |-> FALSE]
    /\ IF recv(queue) = Quit
       THEN /\ thread' = "exited"
            /\ emitted' = <<>>
            /\ UNCHANGED <<original_clip, original_waveform,
                           amplitude_multiplication_factor, is_looping_enabled>>
       ELSE \E returned \in CallbackResults :
                Vibrated(AndroidDispatch(HapticThread, recv(queue), returned))
    /\ UNCHANGED <<backend, debug_assertions, clip_duration, clip_loaded, haptic_clip,
                   dropped, event_provider, start_time, play_delay, looping_enabled>>

Next ==
    \/ ControllerLoad
    \/ PlayerLoad
    \/ PlayerUnload
    \/ ControllerPlay
    \/ ControllerStop
    \/ ControllerSeek
    \/ ControllerSetLooping
    \/ ControllerSetAmplitudeMultiplication
    \/ ControllerSetFrequencyShift
    \/ Drop
    \/ DropInCallback
    \/ StreamingRecv
    \/ StreamingTimeout
    \/ Tick
    \/ AndroidRecv

Spec == Init /\ [][Next]_vars

\* ------------------------------------------------- calls made in a burst

\* The number of commands that may wait in the channel when the caller makes calls
\* faster than the streaming thread receives them
MaxBurst == 3

\* The caller may call the streaming player while fewer than MaxBurst commands wait
MayCallInBurst == backend = "streaming" /\ ~dropped /\ Len(queue) < MaxBurst

BurstPlay ==
    /\ MayCallInBurst
    /\ Called("play", [HapticsController EXCEPT !.player = play(@)])

BurstStop ==
    /\ MayCallInBurst
    /\ Called("stop", [HapticsController EXCEPT !.player = stop(@)])

BurstSeek ==
    /\ MayCallInBurst
    /\ \E time \in SeekTimes :
           Called("seek", [HapticsController EXCEPT !.player = seek(@, time)])

\* The player is dropped while commands may wait
BurstDrop == MayCallInBurst /\ DropPlayer

NextBurst ==
    \/ ControllerLoad
    \/ BurstPlay
    \/ BurstStop
    \/ BurstSeek
    \/ BurstDrop
    \/ StreamingRecv
    \/ StreamingTimeout
    \/ Tick

\* The streaming player with a caller that makes its calls in bursts
SpecBurst == Init /\ [][NextBurst]_vars

\* ------------------------------------- every call made while commands wait

\* The number of commands that may wait in the channel when any call may be made
\* before the streaming thread has received the commands of the calls before it
MaxWaiting == 2

\* The caller may call the streaming player while fewer than MaxWaiting commands wait
MayCallWhileWaiting == backend = "streaming" /\ ~dropped /\ Len(queue) < MaxWaiting

\* A file that loads and a file that does not
WaitingFiles == {ClipA, FileEmpty}

WaitingLoad ==
    /\ MayCallWhileWaiting
    /\ \E data \in WaitingFiles : Called("load", controller_load(HapticsController, data))

WaitingUnload ==
    /\ MayCallWhileWaiting
    /\ Called("unload", [HapticsController EXCEPT !.player = unload(@)])

WaitingPlay ==
    /\ MayCallWhileWaiting
    /\ Called("play", [HapticsController EXCEPT !.player = play(@)])

WaitingStop ==
    /\ MayCallWhileWaiting
    /\ Called("stop", [HapticsController EXCEPT !.player = stop(@)])

WaitingSeek ==
    /\ MayCallWhileWaiting
    /\ \E time \in SeekTimes :
           Called("seek", [HapticsController EXCEPT !.player = seek(@, time)])

WaitingSetLooping ==
    /\ MayCallWhileWaiting
    /\ \E enabled \in BOOLEAN :
           Called("set_looping", [HapticsController EXCEPT !.player = set_looping(@, enabled)])

WaitingSetAmplitudeMultiplication ==
    /\ MayCallWhileWaiting
    /\ \E multiplication_factor \in {2} :
           Called("set_amplitude_multiplication",
                  controller_set_amplitude_multiplication(HapticsController,
                                                          multiplication_factor))

WaitingSetFrequencyShift ==
    /\ MayCallWhileWaiting
    /\ \E shift \in {8} :
           Called("set_frequency_shift",
                  controller_set_frequency_shift(HapticsController, shift))

\* The streaming player, built without debug assertions or with them
InitWaiting == Init /\ backend = "streaming"

NextWaiting ==
    \/ WaitingLoad
    \/ WaitingUnload
    \/ WaitingPlay
    \/ WaitingStop
    \/ WaitingSeek
    \/ WaitingSetLooping
    \/ WaitingSetAmplitudeMultiplication
    \/ WaitingSetFrequencyShift
    \/ StreamingRecv
    \/ StreamingTimeout
    \/ Tick

\* The streaming player with a single caller whose calls need not wait for the
\* streaming thread
SpecWaiting == InitWaiting /\ [][NextWaiting]_vars

\* ------------------------------------------------ clips played in a loop

\* A valid clip whose only amplitude breakpoint, and so its last, is at time 0
ClipAtZero == DataModel(CURRENT, <<AmplitudeBreakpoint(0, 3, NoEmphasis)>>, None)

\* Clips that end after time 0 and a clip that ends at time 0
LoopingFiles == {ClipA, ClipB, ClipAtZero}

LoopingLoad ==
    /\ MayCallWhileWaiting
    /\ \E data \in LoopingFiles : Called("load", controller_load(HapticsController, data))

NextLooping ==
    \/ LoopingLoad
    \/ WaitingPlay
    \/ WaitingStop
    \/ WaitingSetLooping
    \/ StreamingRecv
    \/ StreamingTimeout
    \/ Tick

\* The streaming player loading, playing, looping and stopping clips
SpecLooping == InitWaiting /\ [][NextLooping]_vars

\* The same player when time keeps passing: whenever the streaming thread is left
\* waiting for the time of the next event, that time comes
SpecLoopingFair ==
    /\ SpecLooping
    /\ WF_vars(Tick)

\* ------------------------------------------- the event provider on its own

\* The latest time of a breakpoint of the clips given to the provider on its own
MaxClipTime == 3

\* The largest number of breakpoints of an envelope of those clips
MaxBreakpoints == 3

\* The times of n breakpoints, one after the other
IncreasingTimes(n) ==
    {times \in [1..n -> 0..MaxClipTime] : \A i \in 1..(n - 1) : times[i] < times[i + 1]}

AmplitudeEnvelopes ==
    UNION {{[i \in 1..n |-> AmplitudeBreakpoint(times[i], amplitudes[i], NoEmphasis)] :
                times \in IncreasingTimes(n), amplitudes \in [1..n -> {1, 3}]} :
           n \in 1..MaxBreakpoints}

FrequencyEnvelopes ==
    UNION {{[i \in 1..n |-> FrequencyBreakpoint(times[i], frequencies[i])] :
                times \in IncreasingTimes(n), frequencies \in [1..n -> {2, 4}]} :
           n \in 1..(MaxBreakpoints - 1)}

\* The clips that pass validation, with and without a frequency envelope
ValidClips ==
    {clip \in {DataModel(CURRENT, amplitude, frequency) :
                   amplitude \in AmplitudeEnvelopes,
                   frequency \in {None} \cup {Some(envelope) : envelope \in FrequencyEnvelopes}} :
        validate(clip)}

\* The variables of the players, which stay as they are while a pure function of the
\* SDK is applied on its own
players == <<backend, debug_assertions, clip_duration, clip_loaded, dropped, queue, thread,
             start_time, play_delay, looping_enabled, original_clip, original_waveform,
             amplitude_multiplication_factor, is_looping_enabled>>

\* No player has been created
NoPlayer ==
    /\ backend = "null"
    /\ debug_assertions = FALSE
    /\ clip_duration = 0
    /\ clip_loaded = FALSE
    /\ dropped = FALSE
    /\ queue = <<>>
    /\ thread = "none"
    /\ start_time = None
    /\ play_delay = None
    /\ looping_enabled = FALSE
    /\ original_clip = None
    /\ original_waveform = None
    /\ amplitude_multiplication_factor = 1
    /\ is_looping_enabled = FALSE

\* HapticEventProvider::new(clip) for a valid clip: haptic_clip is the clip,
\* event_provider the provider, emitted the events got from it since it was created or
\* sought, processed the time it was last sought to
InitProvider ==
    /\ NoPlayer
    /\ \E clip \in ValidClips :
           /\ haptic_clip = Some(clip)
           /\ event_provider = Some(HapticEventProvider(clip))
    /\ emitted = <<>>
    /\ processed = None
    /\ last = [step |-> "Init"]

\* HapticEventProvider::peek_event_start_time(&self)
ProviderPeeks ==
    /\ last' = [step |-> "Peek", time |-> peek_event_start_time(event_provider[1])]
    /\ UNCHANGED <<haptic_clip, event_provider, emitted, processed>>
    /\ UNCHANGED players

\* One turn of the loop of gather_events_from_provider: peek_event_start_time, then
\* get_next_event(&mut self), and the event kept in the result
ProviderGets ==
    /\ last' = [step |-> "Get", time |-> peek_event_start_time(event_provider[1]),
                event |-> get_next_event(event_provider[1])]
    /\ event_provider' = Some(ProviderAdvance(event_provider[1]))
    /\ emitted' = IF get_next_event(event_provider[1]) = None THEN emitted
                  ELSE Append(emitted, get_next_event(event_provider[1])[1])
    /\ UNCHANGED <<haptic_clip, processed>>
    /\ UNCHANGED players

\* HapticEventProvider::seek(seek_time) to a time within the clip
ProviderSeeks ==
    \E seek_time \in 0..EndOfAmplitude(haptic_clip[1]) :
        /\ event_provider' = Some(ProviderSeek(event_provider[1], seek_time))
        /\ emitted' = <<>>
        /\ processed' = Some(seek_time)
        /\ last' = [step |-> "Seek", time |-> seek_time]
        /\ UNCHANGED haptic_clip
        /\ UNCHANGED players

NextProvider == ProviderPeeks \/ ProviderGets \/ ProviderSeeks

\* The event provider driven on its own: peeked, advanced and sought in any order
SpecProvider == InitProvider /\ [][NextProvider]_vars

\* ------------------------------------- the event provider sought past its end

\* HapticEventProvider::seek(seek_time) to a time after the last amplitude breakpoint.
\* processed keeps the time, whether get_next_event had been called on the provider
\* before, and the amplitude position the seek found
ProviderSeeksPastEnd ==
    \E seek_time \in (EndOfAmplitude(haptic_clip[1]) + 1)..(MaxClipTime + 1) :
        /\ event_provider' = Some(ProviderSeek(event_provider[1], seek_time))
        /\ emitted' = <<>>
        /\ processed' = Some([time |-> seek_time,
                              started |-> \/ last.step = "Get"
                                          \/ processed # None /\ processed[1].started,
                              position |-> event_provider[1].amplitude_position.tag])
        /\ last' = [step |-> "Seek", time |-> seek_time]
        /\ UNCHANGED haptic_clip
        /\ UNCHANGED players

NextPastEnd ==
    \/ ProviderGets
    \/ ProviderSeeksPastEnd

\* The event provider of every valid clip, played and sought past the end of the clip
\* in any order
SpecPastEnd == InitProvider /\ [][NextPastEnd]_vars

\* ----------------------------------------------------- the loader on its own

\* The highest minor and patch numbers of the files given to the loader
MaxMinor == 3

\* Versions of major 0, 1 and 2
LoaderVersions == {Version(major, minor, patch) : major \in 0..2, minor \in 0..MaxMinor,
                                                  patch \in 0..1}

\* A breakpoint of the version 0 layout
BreakpointV0(t, a) == [time |-> t, amplitude |-> a]

\* Envelopes of the version 0 layout: one or two breakpoints, the last two not in the
\* order of their times or out of range
EnvelopesV0 ==
    {<<BreakpointV0(0, 1)>>,
     <<BreakpointV0(0, 1), BreakpointV0(2, 3)>>,
     <<BreakpointV0(1, 4), BreakpointV0(2, 0)>>,
     <<BreakpointV0(2, 1), BreakpointV0(1, 3)>>,
     <<BreakpointV0(0, 1), BreakpointV0(2, 5)>>}

\* Transients of the version 0 layout: none, a pair at the time of a breakpoint, a pair
\* at another time, and an amplitude without its frequency
TransientsV0 ==
    {<<>>,
     <<<<BreakpointV0(2, 4)>>, <<BreakpointV0(2, 2)>>>>,
     <<<<BreakpointV0(1, 4)>>, <<BreakpointV0(1, 3)>>>>,
     <<<<BreakpointV0(2, 4)>>>>}

\* What the files hold in the version 0 layout
ContentsV0 ==
    {DataModelV0(CURRENT_V0, duration, envelopes, transients) :
         duration \in {1, 3},
         envelopes \in {<<>>} \cup {<<amplitude>> : amplitude \in EnvelopesV0}
                       \cup {<<amplitude, <<BreakpointV0(0, 2), BreakpointV0(1, 4)>>>> :
                                 amplitude \in EnvelopesV0},
         transients \in TransientsV0}

\* What the files hold in the version 1 layout
ContentsV1 == Files

\* The files given to the loader: each content under each version number
LoaderFiles ==
    {[content EXCEPT !.version = version] :
         content \in ContentsV0 \cup ContentsV1, version \in LoaderVersions}

\* A file has been read; haptic_clip is the file
InitLoader ==
    /\ NoPlayer
    /\ haptic_clip \in {Some(file) : file \in LoaderFiles}
    /\ event_provider = None
    /\ emitted = <<>>
    /\ processed = None
    /\ last = [step |-> "Init"]

\* datamodel::from_json(data)
LoaderFromJson ==
    /\ last' = [step |-> "from_json", value |-> from_json(haptic_clip[1])]
    /\ UNCHANGED <<haptic_clip, event_provider, emitted, processed>>
    /\ UNCHANGED players

\* datamodel::latest_from_json(data)
LoaderLatestFromJson ==
    /\ last' = [step |-> "latest_from_json", value |-> latest_from_json(haptic_clip[1])]
    /\ UNCHANGED <<haptic_clip, event_provider, emitted, processed>>
    /\ UNCHANGED players

NextLoader == LoaderFromJson \/ LoaderLatestFromJson

\* The loader applied to files of every version and layout
SpecLoader == InitLoader /\ [][NextLoader]_vars

\* ------------------------------------------------- truncation on its own

\* The times of n breakpoints in the order validation asks for: none before the one
\* ahead of it
NonDecreasingTimes(n) ==
    {times \in [1..n -> 0..MaxClipTime] : \A i \in 1..(n - 1) : times[i] <= times[i + 1]}

\* The valid clips given to truncate_before: breakpoints may share a time, and the first
\* one may come after time 0
ClipsToTruncate ==
    {clip \in {DataModel(CURRENT, amplitude, frequency) :
                   amplitude \in UNION {{[i \in 1..n |-> AmplitudeBreakpoint(
                                              times[i], amplitudes[i], NoEmphasis)] :
                                             times \in NonDecreasingTimes(n),
                                             amplitudes \in [1..n -> {1, 3}]} :
                                        n \in 1..MaxBreakpoints},
                   frequency \in {None} \cup
                       UNION {{Some([i \in 1..n |-> FrequencyBreakpoint(times[i],
                                                                       frequencies[i])]) :
                                   times \in NonDecreasingTimes(n),
                                   frequencies \in [1..n -> {2, 4}]} :
                              n \in 1..(MaxBreakpoints - 1)}} :
        validate(clip)}

\* A valid clip is at hand; haptic_clip is the clip
InitTruncate ==
    /\ NoPlayer
    /\ haptic_clip \in {Some(clip) : clip \in ClipsToTruncate}
    /\ event_provider = None
    /\ emitted = <<>>
    /\ processed = None
    /\ last = [step |-> "Init"]

\* clip.clone().truncate_before(time), for a time from 0 to just behind the last one a
\* clip can have
Truncates ==
    \E time \in 0..(MaxClipTime + 1) :
        /\ last' = [step |-> "truncate_before", time |-> time,
                    value |-> truncate_before(haptic_clip[1], time)]
        /\ UNCHANGED <<haptic_clip, event_provider, emitted, processed>>
        /\ UNCHANGED players

NextTruncate == Truncates

\* truncate_before applied to every valid clip at every time
SpecTruncate == InitTruncate /\ [][NextTruncate]_vars

\* --------------------------------------------------- emphasis on its own

MaxEmphasisTime == 5

\* The emphasis a breakpoint of the clips below may carry: the highest amplitude, so
\* that it is no lower than the amplitude of its breakpoint, as validation asks
EmphasisChoices == {None, Some([amplitude |-> MAX_ENVELOPE_AMPLITUDE, frequency |-> 2])}

\* The valid amplitude envelopes given to emphasize: any breakpoint may carry emphasis,
\* breakpoints may share a time, and the first one may come after time 0
EnvelopesToEmphasize ==
    {amplitude \in UNION {{[i \in 1..n |-> AmplitudeBreakpoint(
                                times[i], amplitudes[i], emphasis[i])] :
                               times \in {t \in [1..n -> 0..MaxEmphasisTime] :
                                              \A i \in 1..(n - 1) : t[i] <= t[i + 1]},
                               amplitudes \in [1..n -> {1, 3}],
                               emphasis \in [1..n -> EmphasisChoices]} :
                          n \in 1..MaxBreakpoints} :
        validate(DataModel(CURRENT, amplitude, None))}

\* The parameters given to emphasize: the lengths of its three areas, all alike or the
\* emphasis area the shorter one as in the tests of emphasis.rs, and a ducking amplitude
\* that is zero (Default) or the lowest amplitude above (Android)
ParametersToEmphasize ==
    {EmphasisParameters(lengths[1], lengths[2], lengths[3], ducking_amplitude) :
         lengths \in {<<1, 1, 1>>, <<2, 2, 2>>, <<2, 1, 2>>},
         ducking_amplitude \in {0, 1}}

\* A valid clip is at hand; haptic_clip is the clip
InitEmphasis ==
    /\ NoPlayer
    /\ haptic_clip \in {Some(DataModel(CURRENT, amplitude, None)) :
                            amplitude \in EnvelopesToEmphasize}
    /\ event_provider = None
    /\ emitted = <<>>
    /\ processed = None
    /\ last = [step |-> "Init"]

\* emphasize(&clip.signals.continuous.envelopes.amplitude, parameters)
Emphasizes ==
    \E parameters \in ParametersToEmphasize :
        /\ last' = [step |-> "emphasize", parameters |-> parameters,
                    value |-> emphasize(haptic_clip[1].amplitude, parameters)]
        /\ UNCHANGED <<haptic_clip, event_provider, emitted, processed>>
        /\ UNCHANGED players

NextEmphasis == Emphasizes

\* emphasize applied to every valid clip with each of the parameters
SpecEmphasis == InitEmphasis /\ [][NextEmphasis]_vars

\* ------------------------------------------------------ export to AHAP

\* const MAX_CONTINUOUS_EVENT_DURATION: 30.0 seconds, in ticks
MAX_CONTINUOUS_EVENT_DURATION == 1200

\* f32::sqrt on the amplitude grid, rounded down to the grid
sqrt(value) ==
    CHOOSE root \in 0..MAX_ENVELOPE_AMPLITUDE :
        /\ root * root <= value * MAX_ENVELOPE_AMPLITUDE
        /\ (root + 1) * (root + 1) > value * MAX_ENVELOPE_AMPLITUDE

\* ios::v1::get_intensity_from_amplitude_bp, 1.0 - AMPLITUDE_DUCKING being 4/5
get_intensity_from_amplitude_bp(breakpoint) ==
    IF breakpoint.emphasis # None THEN (sqrt(breakpoint.amplitude) * 4) \div 5
    ELSE sqrt(breakpoint.amplitude)

\* ios::v1::ParameterCurveControlPoint
ParameterCurveControlPoint(time, parameter_value) ==
    [time |-> time, parameter_value |-> parameter_value]

\* Pattern::Event(Event::HapticTransient) with its two event parameters
HapticTransient(time, intensity, sharpness) ==
    [pattern |-> "HapticTransient", time |-> time,
     HapticIntensity |-> intensity, HapticSharpness |-> sharpness]

\* Pattern::Event(Event::HapticContinuous) with its two event parameters
HapticContinuous(time, event_duration) ==
    [pattern |-> "HapticContinuous", time |-> time, event_duration |-> event_duration,
     HapticIntensity |-> MAX_ENVELOPE_AMPLITUDE, HapticSharpness |-> 0]

\* Pattern::ParameterCurve
ParameterCurve(parameter_id, time, parameter_curve_control_points) ==
    [pattern |-> "ParameterCurve", parameter_id |-> parameter_id, time |-> time,
     parameter_curve_control_points |-> parameter_curve_control_points]

\* slice[1..]
Rest(slice) == SubSeq(slice, 2, Len(slice))

\* Iterator::filter over a slice
RECURSIVE with_emphasis(_)
with_emphasis(breakpoints) ==
    IF Len(breakpoints) = 0 THEN <<>>
    ELSE (IF breakpoints[1].emphasis # None THEN <<breakpoints[1]>> ELSE <<>>)
         \o with_emphasis(Rest(breakpoints))

\* ios::v1::ahap_transient_events_from_breakpoints
ahap_transient_events_from_breakpoints(breakpoints) ==
    LET emphasized == with_emphasis(breakpoints)
    IN  [i \in 1..Len(emphasized) |->
             HapticTransient(emphasized[i].time, sqrt(emphasized[i].emphasis[1].amplitude),
                             emphasized[i].emphasis[1].frequency)]

RECURSIVE chunks(_, _)
\* slice::chunks
chunks(slice, chunk_size) ==
    IF Len(slice) = 0 THEN <<>>
    ELSE IF Len(slice) <= chunk_size THEN <<slice>>
    ELSE <<SubSeq(slice, 1, chunk_size)>>
         \o chunks(SubSeq(slice, chunk_size + 1, Len(slice)), chunk_size)

RECURSIVE parameter_curves(_, _, _, _)
\* From<v1::DataModel> for Ahap: the loop over the chunks of an envelope, whose control
\* point is the last point of the chunk before
parameter_curves(parameter_id, control_point, point_chunks, index) ==
    IF index > Len(point_chunks) THEN <<>>
    ELSE <<ParameterCurve(parameter_id, control_point.time,
                          <<control_point>> \o point_chunks[index])>>
         \o parameter_curves(parameter_id,
                             point_chunks[index][Len(point_chunks[index])],
                             point_chunks, index + 1)

RECURSIVE transients_of_chunks(_, _)
\* From<v1::DataModel> for Ahap: transient_events_data.extend for each chunk
transients_of_chunks(breakpoint_chunks, index) ==
    IF index > Len(breakpoint_chunks) THEN <<>>
    ELSE ahap_transient_events_from_breakpoints(breakpoint_chunks[index])
         \o transients_of_chunks(breakpoint_chunks, index + 1)

\* ios::v1::ahap_continuous_events_from_v1
ahap_continuous_events_from_v1(clip) ==
    LET total == clip.amplitude[Len(clip.amplitude)].time
        event_count == (total + MAX_CONTINUOUS_EVENT_DURATION - 1)
                           \div MAX_CONTINUOUS_EVENT_DURATION
    IN  [i \in 1..event_count |->
             HapticContinuous((i - 1) * MAX_CONTINUOUS_EVENT_DURATION,
                              Min(MAX_CONTINUOUS_EVENT_DURATION,
                                  total - (i - 1) * MAX_CONTINUOUS_EVENT_DURATION))]

\* From<v1::DataModel> for Ahap: the pattern of the AHAP
ahap_from_v1(v1) ==
    LET intensity_points ==
            [i \in 1..Len(v1.amplitude) |->
                 ParameterCurveControlPoint(v1.amplitude[i].time,
                                            get_intensity_from_amplitude_bp(v1.amplitude[i]))]
        sharpness_points ==
            IF v1.frequency = None THEN <<>>
            ELSE [i \in 1..Len(v1.frequency[1]) |->
                      ParameterCurveControlPoint(v1.frequency[1][i].time,
                                                 sqrt(v1.frequency[1][i].frequency))]
    IN  parameter_curves("HapticIntensityControl", intensity_points[1],
                         chunks(Rest(intensity_points), 15), 1)
        \o (IF Len(sharpness_points) = 0 THEN <<>>
            ELSE parameter_curves("HapticSharpnessControl", sharpness_points[1],
                                  chunks(Rest(sharpness_points), 15), 1))
        \o ahap_continuous_events_from_v1(v1)
        \o transients_of_chunks(chunks(Rest(v1.amplitude), 15), 1)

LongClipLength == 17

\* Envelopes longer than one chunk of the export: a breakpoint at every tick, none or
\* one of them with emphasis
LongEnvelopes ==
    {[i \in 1..LongClipLength |->
          AmplitudeBreakpoint(i - 1, 1,
                              IF i = emphasized
                              THEN Some([amplitude |-> MAX_ENVELOPE_AMPLITUDE,
                                         frequency |-> 2])
                              ELSE None)] :
         emphasized \in 0..LongClipLength}

\* The valid clips given to the export: the envelopes given to emphasize and the long
\* ones, with or without a frequency envelope
ClipsToExport ==
    {DataModel(CURRENT, amplitude, frequency) :
         amplitude \in EnvelopesToEmphasize \cup LongEnvelopes,
         frequency \in {None, Some(<<FrequencyBreakpoint(0, 2), FrequencyBreakpoint(1, 4)>>)}}

\* A valid clip is at hand; haptic_clip is the clip
InitAhap ==
    /\ NoPlayer
    /\ haptic_clip \in {Some(clip) : clip \in ClipsToExport}
    /\ event_provider = None
    /\ emitted = <<>>
    /\ processed = None
    /\ last = [step |-> "Init"]

\* Ahap::from(clip)
ConvertsToAhap ==
    /\ last.step = "Init"
    /\ last' = [step |-> "Ahap::from", value |-> ahap_from_v1(haptic_clip[1])]
    /\ UNCHANGED <<haptic_clip, event_provider, emitted, processed>>
    /\ UNCHANGED players

NextAhap == ConvertsToAhap

\* Ahap::from applied to every valid clip
SpecAhap == InitAhap /\ [][NextAhap]_vars

\* ------------------------------------------------------------------ claims

\* An amplitude event that ramps to zero at once
IsRampToZero(event) ==
    event.kind = "Amplitude" /\ event.duration = 0 /\ event.amplitude = 0

\* The step being taken is the streaming thread receiving the command at the head
\* of the channel, and that command is of kind cmd
StreamingReceives(cmd) ==
    /\ backend = "streaming"
    /\ last'.step = "Recv"
    /\ queue # <<>>
    /\ Head(queue).cmd = cmd

\* The streaming thread has just received a command of kind cmd, and a clip was
\* playing (or not, as playing says) when it did
StreamingReceived(cmd, playing) ==
    /\ backend = "streaming"
    /\ last.step = "Recv"
    /\ processed # None
    /\ processed[1].command.cmd = cmd
    /\ processed[1].playing = playing

\* No command of the streaming thread has been received since one of kind cmd was,
\* which found the clip playing
SinceReceivedWhilePlaying(cmd) ==
    /\ backend = "streaming"
    /\ processed # None
    /\ processed[1].command.cmd = cmd
    /\ processed[1].playing

\* The facade's error for a call that needs a clip when none is loaded
NoClipLoadedErrors ==
    {"Unable to play, no clip loaded.", "Unable to seek, no clip loaded.",
     "Unable to set amplitude multiplication, no clip loaded.",
     "Unable to set frequency shift, no clip loaded.", "Unable to loop, no clip loaded.",
     "Player play: no clip loaded", "Player stop: no clip loaded",
     "Player seek: no clip loaded", "Player set_amplitude_multiplication: no clip loaded",
     "Player set_frequency_shift: no clip loaded", "Player set_looping: no clip loaded"}

\* C1: in the streaming thread a Play received while a clip is playing changes
\* nothing: start_time, play_delay, the provider with its cursors and the looping flag
\* stay as they are and no event is emitted, so that what follows is what would have
\* followed without that Play.
C1_PlayWhilePlayingIsNoOp ==
    [][(StreamingReceives("Play") /\ start_time # None) =>
           /\ UNCHANGED <<start_time, play_delay, event_provider, looping_enabled, thread>>
           /\ emitted' = <<>>]_vars

\* C1 witness: a Play has been received while a clip was playing somewhere after its
\* start.
C1_Witness ==
    /\ StreamingReceived("Play", TRUE)
    /\ start_time # None
    /\ start_time[1] < Now

\* C2: a Stop received by the streaming thread while a clip is playing, looping or
\* not, emits exactly one amplitude event of duration 0 and amplitude 0 and leaves the
\* player not playing with the provider rewound to time 0; and as long as no other
\* command is received, nothing more is emitted.
C2_StopWhilePlaying ==
    SinceReceivedWhilePlaying("Stop") =>
        /\ last.step = "Recv" =>
               /\ Len(emitted) = 1
               /\ IsRampToZero(emitted[1])
               /\ start_time = None
               /\ event_provider # None
               /\ event_provider[1] = ProviderSeek(event_provider[1], 0)
        /\ last.step = "Timeout" => emitted = <<>>

\* C2 witness: the wait that follows a Stop received while playing has timed out and
\* an event has been passed to the host.
C2_Witness ==
    /\ SinceReceivedWhilePlaying("Stop")
    /\ last.step = "Timeout"
    /\ emitted # <<>>

\* C3: a Stop received by the streaming thread while no clip is playing emits no
\* event and leaves start_time, the provider with its cursors, play_delay and the
\* looping flag as they are.
C3_StopWhileNotPlayingIsNoOp ==
    [][(StreamingReceives("Stop") /\ start_time = None) =>
           /\ UNCHANGED <<start_time, event_provider, play_delay, looping_enabled, thread>>
           /\ emitted' = <<>>]_vars

\* C3 witness: a Stop has been received while a clip was loaded and not playing.
C3_Witness ==
    /\ StreamingReceived("Stop", FALSE)
    /\ event_provider # None

\* C4: a Load received by the streaming thread while a clip is playing emits exactly
\* one ramp to zero, for the old clip; and as long as no other command is received,
\* no event of the new clip is emitted.
C4_LoadWhilePlaying ==
    SinceReceivedWhilePlaying("Load") =>
        /\ last.step = "Recv" =>
               /\ Len(emitted) = 1
               /\ IsRampToZero(emitted[1])
               /\ start_time = None
        /\ last.step = "Timeout" => emitted = <<>>

\* C4 witness: the wait that follows a Load received while playing has timed out and
\* an event of the new clip has been passed to the host.
C4_Witness ==
    /\ SinceReceivedWhilePlaying("Load")
    /\ last.step = "Timeout"
    /\ emitted # <<>>

\* C5: on the streaming and the waveform player, play, seek,
\* set_amplitude_multiplication, set_frequency_shift and set_looping called while no
\* clip is loaded return an error and leave the command channel as it is.
C5_NoClipCallsFail ==
    [][(/\ backend \in {"streaming", "waveform"}
        /\ ~clip_loaded
        /\ last'.step = "Call"
        /\ last'.call \in {"play", "seek", "set_amplitude_multiplication",
                           "set_frequency_shift", "set_looping"}) =>
           /\ last'.value # Ok
           /\ queue' = queue]_vars

\* C5 witness: set_looping has been called on the waveform player with no clip
\* loaded and has returned the no-clip error.
C5_Witness ==
    /\ backend = "waveform"
    /\ ~clip_loaded
    /\ last.step = "Call"
    /\ last.call = "set_looping"
    /\ last.value = "Unable to loop, no clip loaded."

\* The player the controller owns holds no clip
NoClipLoaded == IF backend = "null" THEN haptic_clip = None ELSE ~clip_loaded

\* C6, as stated: stop called while no clip is loaded returns success, on the
\* streaming, the waveform and the null player.
C6_StopWithoutClipSucceeds ==
    (last.step = "Call" /\ last.call = "stop" /\ NoClipLoaded) => last.value = Ok

\* C6, amended: stop called while no clip is loaded changes nothing on any player;
\* it returns success on the streaming and the waveform player and the error
\* "Player stop: no clip loaded" on the null player.
C6_StopWithoutClip ==
    [][(last'.step = "Call" /\ last'.call = "stop" /\ NoClipLoaded) =>
           /\ last'.value = IF backend = "null" THEN "Player stop: no clip loaded" ELSE Ok
           /\ UNCHANGED <<queue, clip_loaded, haptic_clip, clip_duration, thread,
                          event_provider, start_time, play_delay, looping_enabled,
                          original_clip, original_waveform,
                          amplitude_multiplication_factor, is_looping_enabled>>]_vars

\* C6 witness: stop has been called on the streaming player with no clip loaded and
\* has returned success.
C6_Witness ==
    /\ backend = "streaming"
    /\ last.step = "Call"
    /\ last.call = "stop"
    /\ ~clip_loaded
    /\ last.value = Ok

\* C7: when HapticsController::load has failed on invalid clip data no clip is
\* loaded: the facade holds none, an Unload has been sent to the worker behind
\* whatever was loaded before, and a play called now fails with the no-clip error
\* and sends nothing.
C7_FailedLoadUnloads ==
    (last.step = "Call" /\ last.call = "load" /\ last.value = "invalid clip") =>
        /\ NoClipLoaded
        /\ backend # "null" => (queue # <<>> /\ queue[Len(queue)] = Unload)
        /\ play(Player).value \in NoClipLoadedErrors
        /\ play(Player).queue = queue

\* C7 witness: load has failed on invalid data while the streaming thread still
\* holds the clip loaded before.
C7_Witness ==
    /\ backend = "streaming"
    /\ last.step = "Call"
    /\ last.call = "load"
    /\ last.value = "invalid clip"
    /\ event_provider # None

\* The clip the last successful load handed to the player
LoadedClip == IF backend = "null" THEN haptic_clip[1] ELSE queue[Len(queue)].data

\* C8: after a load, get_clip_duration returns the time of the last amplitude
\* breakpoint of the clip if the load succeeded and 0 if it failed on an invalid
\* clip.
C8_ClipDuration ==
    (last.step = "Call" /\ last.call = "load") =>
        /\ last.value = Ok => get_clip_duration(HapticsController) = EndOfAmplitude(LoadedClip)
        /\ last.value = "invalid clip" => get_clip_duration(HapticsController) = 0

\* C8 witness: a load has failed on an invalid clip and get_clip_duration returns
\* the duration of the clip loaded before.
C8_Witness ==
    /\ last.step = "Call"
    /\ last.call = "load"
    /\ last.value = "invalid clip"
    /\ get_clip_duration(HapticsController) = EndOfAmplitude(ClipA)

\* The host callback of the waveform player that a command invokes
CallbackOf(cmd) ==
    CASE cmd = "Load" -> "load_clip"
      [] cmd = "Unload" -> "unload_clip"
      [] cmd = "Play" -> "play_clip"
      [] cmd = "Stop" -> "stop_clip"
      [] cmd = "Seek" -> "seek_clip"
      [] cmd = "SetAmplitudeMultiplication" -> "load_clip"
      [] cmd = "Loop" -> "load_clip"
      [] OTHER -> "none"

C10_SeekPastEnd ==
    (/\ SinceReceivedWhilePlaying("Seek")
     /\ event_provider # None
     /\ processed[1].command.seek_time > EndOfAmplitude(event_provider[1].clip)
     /\ ~looping_enabled) =>
        /\ last.step = "Recv" => emitted = <<>>
        /\ (last.step = "Timeout" /\ last.playing) =>
               /\ Len(emitted) = 1
               /\ IsRampToZero(emitted[1])
               /\ start_time = None
        /\ (last.step = "Timeout" /\ ~last.playing) => emitted = <<>>

\* C10 witness: after a Seek past the end and the ramp to zero that ended the
\* playback, a later wait has timed out and an event has been passed to the host.
C10_Witness ==
    /\ SinceReceivedWhilePlaying("Seek")
    /\ event_provider # None
    /\ processed[1].command.seek_time > EndOfAmplitude(event_provider[1].clip)
    /\ ~looping_enabled
    /\ last.step = "Timeout"
    /\ ~last.playing
    /\ emitted # <<>>

\* The streaming thread has received a Seek to a time after the last amplitude
\* breakpoint of the loaded clip while the clip was playing, and no command since
SoughtPastEndWhilePlaying ==
    /\ SinceReceivedWhilePlaying("Seek")
    /\ event_provider # None
    /\ processed[1].command.seek_time > EndOfAmplitude(event_provider[1].clip)

\* C11: with looping enabled, a Seek past the end received while the clip is playing
\* emits nothing itself and keeps the clip playing; the wait that follows times out
\* at once, emits exactly one ramp to zero and restarts the playback from the
\* beginning of the clip: start_time is now and the provider is sought to 0.
C11_SeekPastEndWhileLooping ==
    [][/\ (/\ StreamingReceives("Seek")
           /\ start_time # None
           /\ looping_enabled
           /\ event_provider # None
           /\ Head(queue).seek_time > EndOfAmplitude(event_provider[1].clip)) =>
              /\ emitted' = <<>>
              /\ start_time' # None
              /\ looping_enabled'
              /\ thread' = thread
       /\ (/\ SoughtPastEndWhilePlaying
           /\ looping_enabled
           /\ last.step = "Recv"
           /\ last'.step = "Timeout") =>
              /\ Len(emitted') = 1
              /\ IsRampToZero(emitted'[1])
              /\ start_time' = Some(Now)
              /\ event_provider' = Some(ProviderSeek(event_provider[1], 0))
              /\ thread' = thread]_vars

\* C11 witness: after a Seek past the end with looping enabled the ramp to zero has
\* been emitted and the clip plays again from its beginning.
C11_Witness ==
    /\ SoughtPastEndWhilePlaying
    /\ looping_enabled
    /\ last.step = "Timeout"
    /\ Len(emitted) = 1
    /\ IsRampToZero(emitted[1])
    /\ start_time = Some(Now)
    /\ event_provider[1] = ProviderSeek(event_provider[1], 0)

\* The streaming thread has received a Seek to a time within the loaded clip while
\* the clip was not playing, and no command since
SoughtWithinClipWhileStopped ==
    /\ backend = "streaming"
    /\ processed # None
    /\ processed[1].command.cmd = "Seek"
    /\ ~processed[1].playing
    /\ event_provider # None
    /\ processed[1].command.seek_time >= 0
    /\ processed[1].command.seek_time <= EndOfAmplitude(event_provider[1].clip)

\* C12: a Seek(t) with t inside the clip received while the clip is not playing
\* emits no event and leaves the player not playing; and the Play received next
\* starts the playback at position t: the playhead is at t and the provider is where
\* the Seek put it, with its first event at t.
C12_SeekWhileStoppedThenPlay ==
    [][/\ (/\ StreamingReceives("Seek")
           /\ start_time = None
           /\ event_provider # None
           /\ Head(queue).seek_time >= 0
           /\ Head(queue).seek_time <= EndOfAmplitude(event_provider[1].clip)) =>
              /\ emitted' = <<>>
              /\ start_time' = None
       /\ (SoughtWithinClipWhileStopped /\ StreamingReceives("Play")) =>
              /\ emitted' = <<>>
              /\ start_time' = Some(Now - processed[1].command.seek_time)
              /\ event_provider' =
                     Some(ProviderSeek(event_provider[1], processed[1].command.seek_time))
              /\ peek_event_start_time(event_provider'[1]) =
                     Some(processed[1].command.seek_time)]_vars

\* C12 witness: after a Seek into the clip received while it was not playing, and
\* before any Play, a wait has timed out and an event has been passed to the host.
C12_Witness ==
    /\ SoughtWithinClipWhileStopped
    /\ last.step = "Timeout"
    /\ start_time = None
    /\ emitted # <<>>

\* The streaming thread has received a Seek to a negative time while the loaded clip
\* was not playing, and no command since
SoughtNegativeWhileStopped ==
    /\ backend = "streaming"
    /\ processed # None
    /\ processed[1].command.cmd = "Seek"
    /\ ~processed[1].playing
    /\ event_provider # None
    /\ processed[1].command.seek_time < 0

\* C13: a Seek(-d) with d > 0 received while the clip is not playing emits nothing;
\* the Play received next starts a playback from the beginning of the clip, the
\* provider being at position 0, with the playhead at -d; and an event is emitted by
\* a wait only when the playhead is not negative, so none earlier than d after the
\* Play.
C13_NegativeSeekThenPlay ==
    [][/\ (/\ StreamingReceives("Seek")
           /\ start_time = None
           /\ event_provider # None
           /\ Head(queue).seek_time < 0) =>
              /\ emitted' = <<>>
              /\ start_time' = None
       /\ (SoughtNegativeWhileStopped /\ StreamingReceives("Play")) =>
              /\ emitted' = <<>>
              /\ start_time' = Some(Now - processed[1].command.seek_time)
              /\ event_provider' = Some(ProviderSeek(event_provider[1], 0))
       /\ (/\ backend = "streaming"
           /\ last'.step = "Timeout"
           /\ start_time # None
           /\ emitted' # <<>>) =>
              Now - start_time[1] >= 0]_vars

\* C13 witness: after a Seek to a negative time received while the clip was not
\* playing, and before any Play, a wait has timed out and an event has been passed
\* to the host.
C13_Witness ==
    /\ SoughtNegativeWhileStopped
    /\ last.step = "Timeout"
    /\ start_time = None
    /\ emitted # <<>>

\* The event the streaming thread would emit next is the last one of the clip
AtLastEvent ==
    /\ event_provider # None
    /\ get_next_event(event_provider[1]) # None
    /\ peek_event_start_time(ProviderAdvance(event_provider[1])) = None

\* C14: without looping, the wait that emits the last event of a playing clip emits
\* the ramp to zero and leaves the player stopped with the provider rewound to 0; and
\* the Play received next, no other command having been received since the Play
\* that started the playback, starts the same playback again: the provider is at
\* position 0 and the playhead at the time of the clip's first event.
C14_PlayTwiceFully ==
    [][/\ (/\ backend = "streaming"
           /\ last'.step = "Timeout"
           /\ start_time # None
           /\ ~looping_enabled
           /\ AtLastEvent) =>
              /\ Len(emitted') = 1
              /\ IsRampToZero(emitted'[1])
              /\ start_time' = None
              /\ event_provider' = Some(ProviderSeek(event_provider[1], 0))
       /\ (/\ StreamingReceives("Play")
           /\ processed # None
           /\ processed[1].command = Play
           /\ ~looping_enabled
           /\ start_time = None
           /\ event_provider # None) =>
              /\ emitted' = <<>>
              /\ event_provider' = Some(ProviderSeek(event_provider[1], 0))
              /\ start_time' # None
              /\ Some(Now - start_time'[1]) = peek_event_start_time(event_provider'[1])]_vars

\* C14 witness: a playback without looping has run to its end, and before another
\* Play a wait has timed out and an event has been passed to the host.
C14_Witness ==
    /\ backend = "streaming"
    /\ processed # None
    /\ processed[1].command = Play
    /\ ~looping_enabled
    /\ last.step = "Timeout"
    /\ ~last.playing
    /\ emitted # <<>>

\* C15: with looping enabled a playing clip is not stopped by the waits of the
\* streaming thread: each leaves it playing, and the one that emits the last event
\* of the clip seeks the provider to 0 and sets start_time to now, so that the first
\* event of the clip is due at once and the clip is played again in full.
C15_LoopingNeverStops ==
    [][(/\ backend = "streaming"
        /\ last'.step = "Timeout"
        /\ start_time # None
        /\ looping_enabled
        /\ event_provider # None) =>
           /\ start_time' # None
           /\ looping_enabled'
           /\ thread' = thread
           /\ AtLastEvent =>
                  /\ emitted' = <<get_next_event(event_provider[1])[1]>>
                  /\ start_time' = Some(Now)
                  /\ event_provider' = Some(ProviderSeek(event_provider[1], 0))
                  /\ peek_event_start_time(event_provider'[1]) = Some(0)]_vars

\* C15 witness: a looping clip that was started by Play has emitted its last event
\* and plays again from its beginning.
C15_Witness ==
    /\ backend = "streaming"
    /\ processed # None
    /\ processed[1].command = Play
    /\ ~processed[1].playing
    /\ looping_enabled
    /\ last.step = "Timeout"
    /\ last.playing
    /\ Len(emitted) = 1
    /\ IsRampToZero(emitted[1])
    /\ start_time = Some(Now)
    /\ event_provider[1] = ProviderSeek(event_provider[1], 0)

\* C16: a Loop that disables looping, received while a looping clip is playing,
\* emits nothing and leaves the playback where it is; as long as no other command
\* is received the waits that follow keep the clip playing until the one that emits
\* the last event of the clip, which emits the ramp to zero and stops the player,
\* start_time being None and the provider rewound to 0, instead of restarting it.
C16_LoopingDisabledWhilePlaying ==
    [][/\ (/\ StreamingReceives("Loop")
           /\ ~Head(queue).enabled
           /\ start_time # None
           /\ looping_enabled) =>
              /\ emitted' = <<>>
              /\ ~looping_enabled'
              /\ UNCHANGED <<start_time, event_provider, play_delay, thread>>
       /\ (/\ SinceReceivedWhilePlaying("Loop")
           /\ ~processed[1].command.enabled
           /\ last'.step = "Timeout"
           /\ start_time # None) =>
              /\ ~looping_enabled
              /\ thread' = thread
              /\ IF AtLastEvent
                 THEN /\ Len(emitted') = 1
                      /\ IsRampToZero(emitted'[1])
                      /\ start_time' = None
                      /\ event_provider' = Some(ProviderSeek(event_provider[1], 0))
                 ELSE /\ start_time' = start_time
                      /\ Len(emitted') = 1]_vars

\* C16 witness: looping was disabled while the looping clip was playing, and the
\* playback has since emitted its ramp to zero and stopped.
C16_Witness ==
    /\ SinceReceivedWhilePlaying("Loop")
    /\ ~processed[1].command.enabled
    /\ last.step = "Timeout"
    /\ last.playing
    /\ Len(emitted) = 1
    /\ IsRampToZero(emitted[1])
    /\ start_time = None
    /\ ~looping_enabled

\* C17: once a worker has received a Load, whatever modulation was set before, the
\* amplitude multiplication is 1.0 and the frequency shift 0.0: the streaming thread
\* holds a provider of the new clip at position 0 with neither, and the haptic
\* thread has passed the waveform of the clip, not multiplied, to load_clip.
C17_LoadResetsModulation ==
    (last.step = "Recv" /\ processed # None /\ processed[1].command.cmd = "Load") =>
        IF backend = "streaming"
        THEN /\ event_provider # None
             /\ event_provider[1].clip = processed[1].command.data
             /\ event_provider[1].amplitude_multiplication = 1
             /\ event_provider[1].frequency_shift = 0
             /\ event_provider[1] = ProviderSeek(event_provider[1], 0)
        ELSE /\ amplitude_multiplication_factor = 1
             /\ original_waveform = Some(convert_clip_to_waveform(processed[1].command.data))
             /\ Len(emitted) = 1
             /\ emitted[1].callback = "load_clip"
             /\ emitted[1].timings = original_waveform[1].timings
             /\ emitted[1].amplitudes = original_waveform[1].amplitudes

\* C17 witness: the haptic thread has received the Load that follows an Unload while
\* it held an amplitude multiplication factor other than 1.0.
C17_Witness ==
    /\ backend = "waveform"
    /\ last.step = "Recv"
    /\ processed # None
    /\ processed[1].command.cmd = "Load"
    /\ processed[1].modulated
    /\ original_clip = Some(processed[1].command.data)
    /\ amplitude_multiplication_factor = 1

\* C18: whatever the host callback of a command returns, an error included, the
\* haptic thread that has processed the command keeps running and the facade is as
\* it was, so that a call made afterwards succeeds as it would have; and the thread
\* invokes the callback of each Load, Unload, Play and Stop it receives.
C18_CallbackErrorsAreLogged ==
    [][(/\ backend = "waveform"
        /\ last'.step = "Recv"
        /\ queue # <<>>
        /\ Head(queue) # Quit) =>
           /\ thread' = "running"
           /\ UNCHANGED <<clip_loaded, clip_duration, dropped>>
           /\ queue' = Tail(queue)
           /\ Head(queue).cmd \in {"Load", "Unload", "Play", "Stop"} =>
                  /\ Len(emitted') = 1
                  /\ emitted'[1].callback = CallbackOf(Head(queue).cmd)]_vars

\* C18 witness: play_clip has returned an error to the haptic thread, which keeps
\* running.
C18_Witness ==
    /\ backend = "waveform"
    /\ last.step = "Recv"
    /\ processed # None
    /\ processed[1].command = Play
    /\ Len(emitted) = 1
    /\ emitted[1].callback = "play_clip"
    /\ emitted[1].returned # Ok
    /\ thread = "running"


\* ---- C19

\* The facade of the streaming player has been dropped and the thread still runs; the
\* Quit it sent is the newest command of the channel
DroppedWhileRunning == backend = "streaming" /\ dropped /\ thread = "running"

\* C19 as stated: after the facade is dropped (Quit has been enqueued) the streaming
\* thread emits at most one further event before it exits, whatever commands wait
\* ahead of the Quit; in particular, once a step taken after the drop has emitted an
\* event, the next step of the thread emits none.
C19_AtMostOneEventAfterDrop ==
    [][(DroppedWhileRunning /\ emitted # <<>>) => emitted' = <<>>]_vars

\* C19, amended: after the facade is dropped the streaming thread takes the commands
\* that wait ahead of the Quit in the order they were sent, each of them emits at most
\* one event, no event is emitted on a timeout, and the thread exits exactly when it
\* receives the Quit, without emitting an event for it.
C19_DrainsQueueThenExits ==
    [][DroppedWhileRunning =>
          /\ queue # <<>>
          /\ queue[Len(queue)] = Quit
          /\ last'.step = "Recv"
          /\ queue' = Tail(queue)
          /\ Len(emitted') <= 1
          /\ (thread' = "exited") = (Head(queue) = Quit)
          /\ Head(queue) = Quit => emitted' = <<>>]_vars

\* After the drop a Stop that waited ahead of the Quit has been received while the clip
\* was playing and has emitted its event, and the Quit still waits
C19_Witness ==
    /\ DroppedWhileRunning
    /\ last.step = "Recv"
    /\ emitted # <<>>
    /\ queue = <<Quit>>
    /\ processed # None
    /\ processed[1].command.cmd = "Stop"
    /\ processed[1].playing


\* ---- C20

\* C20: when the facade is dropped on the thread of the player itself, inside a
\* callback of the host, the drop does not try to join that thread, on the streaming
\* and on the waveform player alike, so the thread neither blocks nor panics and runs
\* on to receive the Quit.
C20_DropOnWorkerSkipsJoin ==
    last = [step |-> "Drop", thread |-> PlayerThread] => thread = "running"

\* The waveform player has been dropped inside a callback of its own thread
C20_Witness ==
    /\ backend = "waveform"
    /\ last = [step |-> "Drop", thread |-> PlayerThread]
    /\ dropped


\* ---- C21

\* The provider has given all the events of its clip
StreamEnded ==
    /\ last.step = "Get"
    /\ last.event = None

\* C21: the events a provider gives for a valid clip, from its creation on and without a
\* seek in between, have non-decreasing times: no event starts before the one given
\* before it.
C21_TimesNeverDecrease ==
    processed = None =>
        \A i \in 1..(Len(emitted) - 1) : emitted[i].time <= emitted[i + 1].time

\* A clip with both envelopes has been played to its end from the start, and events of
\* both kinds and of different times were given
C21_Witness ==
    /\ processed = None
    /\ StreamEnded
    /\ \E i, j \in 1..Len(emitted) :
           /\ emitted[i].kind = "Amplitude"
           /\ emitted[j].kind = "Frequency"
           /\ emitted[j].time > 0
    /\ emitted[Len(emitted)].time > emitted[1].time


\* ---- C22

\* C22 as stated: no two consecutive events of the stream of a valid clip overlap: each
\* event ends no later than the next one starts.
C22_ConsecutiveEventsNeverOverlap ==
    processed = None =>
        \A i \in 1..(Len(emitted) - 1) :
            emitted[i].time + emitted[i].duration <= emitted[i + 1].time

\* The events of one kind among those given, in the order they were given
EventsOfKind(kind) == SelectSeq(emitted, LAMBDA event : event.kind = kind)

\* C22, amended: the amplitude events of the stream of a valid clip never overlap each
\* other, and neither do its frequency events: each ends exactly when the next event
\* of its kind starts. An amplitude event and a frequency event may overlap.
C22_EventsOfOneKindNeverOverlap ==
    processed = None =>
        \A kind \in {"Amplitude", "Frequency"} :
            \A i \in 1..(Len(EventsOfKind(kind)) - 1) :
                EventsOfKind(kind)[i].time + EventsOfKind(kind)[i].duration
                    = EventsOfKind(kind)[i + 1].time

\* A clip with both envelopes has been played to its end from the start, and a frequency
\* event was given while an amplitude event given before it still lasted
C22_Witness ==
    /\ processed = None
    /\ StreamEnded
    /\ \E i \in 1..(Len(emitted) - 1) :
           /\ emitted[i].kind = "Amplitude"
           /\ emitted[i + 1].kind = "Frequency"
           /\ emitted[i].time + emitted[i].duration > emitted[i + 1].time
    /\ Len(EventsOfKind("Frequency")) >= 2
    /\ Len(EventsOfKind("Amplitude")) >= 3


\* ---- C23

\* C23: peeking the time of the next event leaves the provider as it is, so that a
\* second peek returns the same time; and get_next_event returns an event exactly when
\* the peek before it returned a time, and then the time of the event is that time.
C23_PeekAgreesWithGet ==
    [][/\ last'.step = "Peek" =>
              /\ event_provider' = event_provider
              /\ last.step = "Peek" => last'.time = last.time
       /\ last'.step = "Get" =>
              /\ (last'.event # None) = (last'.time # None)
              /\ last'.event # None => last'.event[1].time = last'.time[1]
              /\ last.step = "Peek" => last'.time = last.time]_vars

\* After a seek the second of two events of different times has been got, the time
\* peeked before it being that of the event
C23_Witness ==
    /\ last.step = "Get"
    /\ last.event # None
    /\ last.time # None
    /\ processed # None
    /\ Len(emitted) >= 2
    /\ emitted[1].time < last.event[1].time


\* ---- C24

\* C24 as stated: after a seek to a time within the clip the first event the provider
\* gives has that time.
C24_FirstEventAtSeekTime ==
    (processed # None /\ emitted # <<>>) => emitted[1].time = processed[1]

\* The frequency envelope of the clip ends before time
FrequencyEndsBefore(time) ==
    /\ haptic_clip[1].frequency # None
    /\ Last(haptic_clip[1].frequency[1])[1].time < time

\* C24, amended: after a seek to a time t within the clip the first amplitude event the
\* provider gives has time t. The first event of all has time t too, unless the
\* frequency envelope ends before t: then a frequency event at the time of the last
\* frequency breakpoint comes first.
C24_FirstAmplitudeEventAtSeekTime ==
    (processed # None /\ emitted # <<>>) =>
        /\ EventsOfKind("Amplitude") # <<>> =>
               EventsOfKind("Amplitude")[1].time = processed[1]
        /\ emitted[1].time # processed[1] =>
               /\ emitted[1].kind = "Frequency"
               /\ FrequencyEndsBefore(processed[1])
               /\ emitted[1].time = Last(haptic_clip[1].frequency[1])[1].time
        /\ StreamEnded => EventsOfKind("Amplitude") # <<>>

\* After a seek to a time between two amplitude breakpoints and behind the end of the
\* frequency envelope, the events up to the end of the clip have been given
C24_Witness ==
    /\ processed # None
    /\ StreamEnded
    /\ FrequencyEndsBefore(processed[1])
    /\ \A i \in 1..Len(haptic_clip[1].amplitude) :
           haptic_clip[1].amplitude[i].time # processed[1]
    /\ emitted[1].kind = "Frequency"
    /\ Len(EventsOfKind("Amplitude")) >= 3


\* ---- C25

\* The step being taken is the haptic thread receiving the command at the head of the
\* channel, and that command is of kind cmd
AndroidReceives(cmd) ==
    /\ backend = "waveform"
    /\ last'.step = "Recv"
    /\ queue # <<>>
    /\ Head(queue).cmd = cmd

\* C25: on the waveform player a Seek received while looping is enabled has no effect:
\* no callback of the host is invoked and the haptic thread keeps its clip, its
\* waveform, its amplitude multiplication factor and its looping flag. As a Loop
\* received with a clip loaded passes the whole waveform of the clip to load_clip,
\* playback after set_looping starts from the beginning of the clip.
C25_SeekWhileLoopingIsNoOp ==
    [][/\ (AndroidReceives("Seek") /\ is_looping_enabled) =>
              /\ emitted' = <<>>
              /\ UNCHANGED <<original_clip, original_waveform,
                             amplitude_multiplication_factor, is_looping_enabled>>
       /\ (AndroidReceives("Loop") /\ original_waveform # None) =>
              /\ Len(emitted') = 1
              /\ emitted'[1].callback = "load_clip"
              /\ emitted'[1].looping = Head(queue).enabled
              /\ emitted'[1].timings = convert_clip_to_waveform(original_clip[1]).timings
              /\ emitted'[1].amplitudes =
                     convert_clip_to_waveform(original_clip[1]).amplitudes]_vars

\* The haptic thread has received a Seek to a time within the loaded clip while looping
\* was enabled
C25_Witness ==
    /\ backend = "waveform"
    /\ last.step = "Recv"
    /\ processed # None
    /\ processed[1].command.cmd = "Seek"
    /\ processed[1].command.seek_time = 1
    /\ is_looping_enabled
    /\ original_clip # None
    /\ emitted = <<>>


\* ---- C26

\* The file is a valid clip of the legacy layout
ValidLegacyClip(file) == deserializes_as_v0(file) /\ validate_v0(file)

\* C26: every file whose version has major 0 goes to the legacy deserializer, validator
\* and upgrade, whatever its minor and patch numbers: it is accepted exactly when it is
\* a valid legacy clip, and what is returned is then the upgrade of that clip.
C26_MajorZeroIsUpgraded ==
    (last.step = "latest_from_json" /\ haptic_clip[1].version.major = 0) =>
        IF ValidLegacyClip(haptic_clip[1])
        THEN last.value = Some(from_v0(haptic_clip[1]))
        ELSE last.value = None

\* A valid legacy clip with transients and a version of major 0 other than 0.2.0 has
\* been given to latest_from_json
C26_Witness ==
    /\ last.step = "latest_from_json"
    /\ haptic_clip[1].version.major = 0
    /\ haptic_clip[1].version # CURRENT_V0
    /\ ValidLegacyClip(haptic_clip[1])
    /\ haptic_clip[1].transients # <<>>


\* ---- C27

\* The breakpoints of an envelope at or after time, in their order
RemainingFrom(envelope, time) == SelectSeq(envelope, LAMBDA b : b.time >= time)

\* The breakpoints of original that are at or after time are the last breakpoints of
\* truncated, each with its time reduced by time and nothing else changed
ShiftedBy(truncated, original, time) ==
    LET remaining == RemainingFrom(original, time)
        inserted == Len(truncated) - Len(remaining)
    IN  /\ inserted >= 0
        /\ \A i \in 1..Len(remaining) :
               truncated[inserted + i] = [remaining[i] EXCEPT !.time = @ - time]

\* truncate_before has just succeeded
Truncated == last.step = "truncate_before" /\ last.value # None

\* C27: after a successful truncate_before(clip, t) every amplitude breakpoint and every
\* frequency breakpoint that remains from the original clip has its original time
\* reduced by exactly t.
C27_RemainingTimesShifted ==
    Truncated =>
        /\ ShiftedBy(last.value[1].amplitude, haptic_clip[1].amplitude, last.time)
        /\ last.value[1].frequency # None =>
               ShiftedBy(last.value[1].frequency[1], haptic_clip[1].frequency[1], last.time)

\* A clip whose first amplitude breakpoint comes after time 0 has been truncated at a
\* time after 0 and not after that breakpoint
C27_Witness ==
    /\ Truncated
    /\ last.time > 0
    /\ last.time <= haptic_clip[1].amplitude[1].time
    /\ Len(haptic_clip[1].amplitude) >= 2

\* ---- C28

\* C28: truncate_before(clip, t) with t the time of a breakpoint of an envelope inserts
\* no breakpoint into that envelope: what is left of it is exactly its breakpoints at
\* or after t, each shifted by -t.
C28_NoInterpolantAtBreakpoint ==
    Truncated =>
        /\ (\E i \in 1..Len(haptic_clip[1].amplitude) :
                haptic_clip[1].amplitude[i].time = last.time) =>
               /\ Len(last.value[1].amplitude)
                      = Len(RemainingFrom(haptic_clip[1].amplitude, last.time))
               /\ ShiftedBy(last.value[1].amplitude, haptic_clip[1].amplitude, last.time)
        /\ (/\ haptic_clip[1].frequency # None
            /\ \E i \in 1..Len(haptic_clip[1].frequency[1]) :
                   haptic_clip[1].frequency[1][i].time = last.time) =>
               /\ last.value[1].frequency # None
               /\ Len(last.value[1].frequency[1])
                      = Len(RemainingFrom(haptic_clip[1].frequency[1], last.time))
               /\ ShiftedBy(last.value[1].frequency[1], haptic_clip[1].frequency[1],
                            last.time)

\* A clip that starts at time 0 has been truncated at the time of its second amplitude
\* breakpoint, which no other breakpoint shares
C28_Witness ==
    /\ Truncated
    /\ Len(haptic_clip[1].amplitude) = 3
    /\ haptic_clip[1].amplitude[1].time = 0
    /\ haptic_clip[1].amplitude[2].time = last.time
    /\ haptic_clip[1].amplitude[1].time < last.time
    /\ haptic_clip[1].amplitude[3].time > last.time


\* emphasize has been applied to the clip at hand
Emphasized == last.step = "emphasize"

\* The breakpoints of the clip at hand that carry emphasis
EmphasisIndices ==
    {i \in 1..Len(haptic_clip[1].amplitude) : haptic_clip[1].amplitude[i].emphasis # None}

\* C29: for every valid clip, the output of emphasize taken as the amplitude envelope
\* of a clip passes validation: it has a breakpoint, no breakpoint comes before the one
\* ahead of it, and every amplitude is within [0, 1].
C29_EmphasizedClipIsValid ==
    Emphasized =>
        /\ validate(DataModel(CURRENT, last.value, None))
        /\ \A i \in 1..(Len(last.value) - 1) : last.value[i].time <= last.value[i + 1].time
        /\ \A i \in 1..Len(last.value) :
               /\ last.value[i].amplitude >= MIN_ENVELOPE_AMPLITUDE
               /\ last.value[i].amplitude <= MAX_ENVELOPE_AMPLITUDE

\* A clip with two breakpoints with emphasis, the later one within the areas of the
\* earlier one, and an ordinary breakpoint behind them, has been emphasized
C29_Witness ==
    /\ Emphasized
    /\ Len(haptic_clip[1].amplitude) = 3
    /\ EmphasisIndices = {1, 2}
    /\ haptic_clip[1].amplitude[1].time < haptic_clip[1].amplitude[2].time
    /\ haptic_clip[1].amplitude[2].time
           < haptic_clip[1].amplitude[1].time + last.parameters.emphasis_length
                 + last.parameters.ducking_after_length
    /\ Len(last.value) > 5

\* C30: when the first amplitude breakpoint of a clip carries emphasis, emphasize emits
\* no ducking before it: the output begins with the two breakpoints of the emphasis
\* area, at the time of that breakpoint and at the end of the emphasis.
C30_NoDuckingBeforeFirstBreakpoint ==
    (Emphasized /\ haptic_clip[1].amplitude[1].emphasis # None) =>
        /\ Len(last.value) >= 2
        /\ last.value[1] = AmplitudeBreakpoint(haptic_clip[1].amplitude[1].time,
                                               EMPHASIS_AMPLITUDE, None)
        /\ last.value[2] = AmplitudeBreakpoint(
                               haptic_clip[1].amplitude[1].time
                                   + last.parameters.emphasis_length,
                               EMPHASIS_AMPLITUDE, None)

\* A clip whose first breakpoint carries emphasis and comes after time 0 has been
\* emphasized
C30_Witness ==
    /\ Emphasized
    /\ haptic_clip[1].amplitude[1].emphasis # None
    /\ haptic_clip[1].amplitude[1].time > 0
    /\ Len(haptic_clip[1].amplitude) > 1


\* The clip at hand has been exported to an AHAP
Exported == last.step = "Ahap::from"

\* The transient events of the exported pattern at a time
TransientsAt(time) ==
    {i \in 1..Len(last.value) :
         last.value[i].pattern = "HapticTransient" /\ last.value[i].time = time}

\* The breakpoints of the clip at hand that carry emphasis
BreakpointsWithEmphasis ==
    {i \in 1..Len(haptic_clip[1].amplitude) : haptic_clip[1].amplitude[i].emphasis # None}

\* C31: the exported pattern holds exactly one transient event for every amplitude
\* breakpoint that carries emphasis, at the time of that breakpoint: as many transient
\* events as there are such breakpoints, and at each time as many as there are such
\* breakpoints at that time.
C31_OneTransientPerEmphasis ==
    Exported =>
        /\ Cardinality({i \in 1..Len(last.value) :
                            last.value[i].pattern = "HapticTransient"})
               = Cardinality(BreakpointsWithEmphasis)
        /\ \A i \in BreakpointsWithEmphasis :
               Cardinality(TransientsAt(haptic_clip[1].amplitude[i].time))
                   = Cardinality({j \in BreakpointsWithEmphasis :
                                      haptic_clip[1].amplitude[j].time
                                          = haptic_clip[1].amplitude[i].time})

\* A clip whose first and third breakpoints carry emphasis has been exported
C31_Witness ==
    /\ Exported
    /\ Len(haptic_clip[1].amplitude) = 3
    /\ BreakpointsWithEmphasis = {1, 3}
    /\ haptic_clip[1].amplitude[1].time < haptic_clip[1].amplitude[3].time


\* C32: the streaming worker never emits a provider event while the player is not
\* playing: a wait that times out while start_time is not set, a clip being loaded but
\* stopped among the cases, passes no event to the callbacks and fails no assertion of
\* send_next_event.
C32_NoEventWhileNotPlaying ==
    (last.step = "Timeout" /\ ~last.playing) =>
        /\ emitted = <<>>
        /\ thread # "panicked"

\* The wait of the streaming worker has timed out while a clip was loaded and not
\* playing
C32_Witness ==
    /\ last.step = "Timeout"
    /\ ~last.playing
    /\ clip_loaded
    /\ emitted # <<>>


\* The commands that streaming::command_loop answers with "clip is not loaded" when it
\* has no event provider
NeedsClip == {"Play", "Seek", "SetAmplitudeMultiplication", "SetFrequencyShift", "Loop"}

SoughtPastEnd == last.step = "Seek" /\ processed # None

\* The provider was sought past the end before get_next_event was ever called on it
SoughtPastEndUnplayed == processed # None /\ ~processed[1].started

\* C35 as stated: a seek that finds no amplitude breakpoint at or after its time
\* leaves the amplitude position at AfterLast only if playback had started; on a clip
\* that has never been played it leaves it at None, and no event follows.
C35_NoneUnlessPlaybackStarted ==
    /\ SoughtPastEnd =>
           event_provider[1].amplitude_position.tag
               = (IF processed[1].started THEN "AfterLast" ELSE "None")
    /\ (SoughtPastEndUnplayed /\ last.step = "Get") => last.event = None

\* C35: a seek that finds no amplitude breakpoint at or after its time leaves the
\* amplitude position at None if it was None before and at AfterLast otherwise. A new
\* provider is not at None, so on a clip that has never been played the seek leaves
\* AfterLast, and exactly one event follows: the ramp to zero at the time of the last
\* amplitude breakpoint.
C35_AfterLastUnlessAtNone ==
    /\ SoughtPastEnd =>
           event_provider[1].amplitude_position.tag
               = (IF processed[1].position = "None" THEN "None" ELSE "AfterLast")
    /\ (SoughtPastEndUnplayed /\ last.step = "Seek") =>
           event_provider[1].amplitude_position.tag = "AfterLast"
    /\ (SoughtPastEndUnplayed /\ StreamEnded) =>
           /\ Len(emitted) = 1
           /\ IsRampToZero(emitted[1])
           /\ emitted[1].time = EndOfAmplitude(haptic_clip[1])

\* A clip that had not been played was sought past its end and then gave all its
\* events
C35_Witness ==
    /\ SoughtPastEndUnplayed
    /\ StreamEnded
    /\ emitted # <<>>


RECURSIVE NextAmplitudeEvent(_)
\* The first amplitude event a provider gives from where it is, if it gives one
NextAmplitudeEvent(provider) ==
    IF get_next_event(provider) = None THEN None
    ELSE IF get_next_event(provider)[1].kind = "Amplitude" THEN get_next_event(provider)
    ELSE NextAmplitudeEvent(ProviderAdvance(provider))

\* The first amplitude event a provider would give from where it is without any
\* amplitude multiplication
OriginalAmplitudeEvent(provider) ==
    NextAmplitudeEvent([provider EXCEPT !.amplitude_multiplication = 1])

\* C36: when the streaming worker receives SetAmplitudeMultiplication(m) while a clip
\* is playing, the clip stays playing with its playhead where it was, and the next
\* amplitude event the worker will emit has the amplitude of the clip at that event
\* times m squared, clamped to [0, 1].
C36_MultiplicationAppliesToNextEvent ==
    [][(StreamingReceives("SetAmplitudeMultiplication") /\ start_time # None) =>
           /\ thread' = thread
           /\ start_time' = start_time
           /\ event_provider' # None
           /\ NextAmplitudeEvent(event_provider'[1]) # None
           /\ NextAmplitudeEvent(event_provider'[1])[1].amplitude
                  = Max(0, Min(MAX_ENVELOPE_AMPLITUDE,
                               OriginalAmplitudeEvent(event_provider'[1])[1].amplitude
                                   * Head(queue).multiplication_factor
                                   * Head(queue).multiplication_factor))]_vars

\* The worker has received SetAmplitudeMultiplication while a clip was playing between
\* two breakpoints, and the next amplitude event differs from what it would be without
\* the multiplication
C36_Witness ==
    /\ StreamingReceived("SetAmplitudeMultiplication", TRUE)
    /\ start_time # None
    /\ Now - start_time[1] > 0
    /\ NextAmplitudeEvent(event_provider[1]) # OriginalAmplitudeEvent(event_provider[1])


\* C37: a start delay that a negative seek has recorded applies only to the clip that
\* was loaded then: a Play that the streaming worker receives next after a Load starts
\* the new clip with no delay, its playhead at the time of the first event to come.
C37_LoadDropsStartDelay ==
    [][(/\ StreamingReceives("Play")
        /\ thread = "running"
        /\ processed # None
        /\ processed[1].command.cmd = "Load"
        /\ start_time = None
        /\ event_provider # None) =>
           start_time' =
               Some(Now - (IF peek_event_start_time(event_provider[1]) = None THEN 0
                           ELSE peek_event_start_time(event_provider[1])[1]))]_vars

\* The worker has received a Play while no clip was playing, and the clip it starts
\* has its playhead before time 0: its start is delayed
C37_Witness ==
    /\ StreamingReceived("Play", FALSE)
    /\ start_time # None
    /\ play_delay = None
    /\ Now - start_time[1] < 0


\* C38: in the waveform scheduler, once SetAmplitudeMultiplication(m) has been received
\* for the loaded clip, every waveform the haptic thread passes to load_clip or
\* seek_clip for that clip has its amplitudes scaled by m: load_clip gets the waveform
\* of the clip scaled, the reload of a Loop among the cases, and seek_clip gets the
\* waveform of the truncated clip scaled.
C38_WaveformsAreScaled ==
    (/\ backend = "waveform"
     /\ last.step = "Recv"
     /\ processed # None
     /\ original_waveform # None
     /\ original_clip # None) =>
        \A i \in 1..Len(emitted) :
            /\ emitted[i].callback = "load_clip" =>
                   emitted[i].amplitudes
                       = waveform_apply_amplitude_multiplication(
                             original_waveform[1],
                             amplitude_multiplication_factor).amplitudes
            /\ emitted[i].callback = "seek_clip" =>
                   emitted[i].amplitudes
                       = seek_waveform(
                             truncate_before(original_clip[1],
                                             Max(processed[1].command.seek_time, 0)),
                             amplitude_multiplication_factor).amplitudes

\* The haptic thread has received a Loop while it held an amplitude multiplication
\* factor other than 1.0, and has reloaded the clip
C38_Witness ==
    /\ backend = "waveform"
    /\ last.step = "Recv"
    /\ processed # None
    /\ processed[1].command.cmd = "Loop"
    /\ processed[1].modulated
    /\ amplitude_multiplication_factor # 1
    /\ \E i \in 1..Len(emitted) : emitted[i].callback = "load_clip"


\* The amplitude events among the events the streaming worker passed to the host during
\* the last step
AmplitudeEventsEmitted == {i \in 1..Len(emitted) : emitted[i].kind = "Amplitude"}

\* The streaming worker has just taken a step that passed an amplitude event to the
\* host and left the player not playing: start_time is None, or the worker has exited
StoppedAfterAmplitudeEvent ==
    /\ backend = "streaming"
    /\ last.step \in {"Recv", "Timeout"}
    /\ start_time = None \/ thread = "exited"
    /\ AmplitudeEventsEmitted # {}

\* C39: whenever the streaming player is not playing, the most recent amplitude event
\* passed to the host, if any, has the target amplitude 0: after a step of the worker
\* that passes amplitude events to the host and leaves the player not playing, the last
\* of them has amplitude 0.
C39_LastAmplitudeIsZeroWhenStopped ==
    StoppedAfterAmplitudeEvent =>
        \A i \in AmplitudeEventsEmitted :
            (\A j \in AmplitudeEventsEmitted : j <= i) => emitted[i].amplitude = 0

\* A step of the worker has passed an amplitude event to the host and left the player
\* not playing, and the release build is running
C39_Witness ==
    /\ StoppedAfterAmplitudeEvent
    /\ ~debug_assertions
    /\ thread = "running"


\* The streaming worker, playing with looping enabled, passes the last event of the clip
\* to the host and restarts the clip: send_next_event seeks the provider to 0.0 and sets
\* start_time to now
ClipRestarts ==
    /\ StreamingTimeout
    /\ start_time # None
    /\ looping_enabled
    /\ emitted' # <<>>
    /\ peek_event_start_time(ProviderAdvance(event_provider[1])) = None
    /\ start_time' = Some(Now)

\* Time passes: a tick while a clip is playing, or the DEFAULT_TIME_TO_SLEEP seconds
\* after which recv_timeout returns while nothing is playing
TimePasses == Tick \/ (StreamingTimeout /\ start_time = None)

\* C40: with looping enabled the streaming worker emits only finitely many events in a
\* bounded time: if, after the last call of the caller, the worker restarts the clip
\* again and again, then time passes again and again, whatever valid clip is loaded.
C40_RestartsTakeTime ==
    (<>[][last'.step # "Call"]_vars /\ []<><<ClipRestarts>>_vars) => []<><<TimePasses>>_vars

\* The worker has just restarted a looping clip whose last amplitude breakpoint is at
\* time 0
C40_Witness ==
    /\ backend = "streaming"
    /\ last.step = "Timeout"
    /\ last.playing
    /\ looping_enabled
    /\ start_time = Some(Now)
    /\ emitted # <<>>
    /\ event_provider # None
    /\ event_provider[1].clip.amplitude[Len(event_provider[1].clip.amplitude)].time = 0

=============================================================================
